---- MODULE Spec2Model ----
(***************************************************************************)
(* A model of the SMPP session engine of ajankovic/smpp: the session state *)
(* machine (makeTransition, setState), the outstanding-request table       *)
(* (sent), the send and request windows, the receive loop (serve), the     *)
(* handler tasks (handleRequest, Context.Respond) and shutdown (Close).    *)
(*                                                                         *)
(* Every section of the code that runs under the session mutex is one      *)
(* action; Close, whose critical section sets two states in a row, is two  *)
(* actions with the mutex (mu) held in between.                            *)
(*                                                                         *)
(* Spec is that engine under any caller and any peer.  CallerSpec is the   *)
(* engine under a caller that makes the calls of a script in order (the    *)
(* flow of TestESMESession, and the Unbind helper).  ServerSpec is the     *)
(* Server of server.go: Serve's accept loop, the goroutine of each         *)
(* connection, Unbind and Close, over sessions of which only the state,    *)
(* the stream and the pending call are followed, with their peers.         *)
(* PanicSpec is Spec with handlers that can panic.  TransitionSpec is      *)
(* makeTransition alone, called once on every state, type, command id and  *)
(* direction.  CodecSpec is the codec of package pdu, byte by byte: an     *)
(* Encoder with its sequencer and a Decoder on one buffer.  OptionsSpec is *)
(* an Options map that is marshalled and unmarshalled.  BindSpec is the    *)
(* engine under callers and a peer that exchange binds of all three kinds. *)
(* LockSpec follows Send, Respond, serve and handleRequest line by line,   *)
(* with sess.mu locked and unlocked where the code does it and Encode in   *)
(* steps: the read of the sequencer, its increment and a Write in two      *)
(* parts.                                                                  *)
(***************************************************************************)
EXTENDS Integers, Sequences, FiniteSets, TLC

\* ------------------------------------------------------------------ bounds
\* conf.SendWinSize and conf.ReqWinSize of the session under test.
SendWinSize == 2
ReqWinSize == 1
\* Largest sequence number drawn from the sequencer.
MaxSeq == 2
\* Number of Close goroutines started by shutdown() and waiting to run.
MaxShutdowns == 1
\* Largest sequence number the peer puts in a request (0 is the smallest).
MaxPeerSeq == 1
\* Largest sequence number drawn from the sequencer under a scripted caller.
MaxScriptSeq == 3
\* Number of connections the Server accepts.
MaxConns == 2
\* Number of sequence numbers an Encoder draws from its sequencer.
MaxDraws == 3
\* Length of the longest option value of a PDU given to an Encoder.
LongLen == 4077
\* Length of the longest value of an Options map that is marshalled alone.
MaxValueLen == 65535

\* ------------------------------------------------------- pdu/constants.go
MaxPDUSize == 4096
StatusOK == 0
StatusSysErr == 8
StatusInvDstAdr == 11
StatusThrottled == 88

GenericNackID == "generic_nack"
BindReceiverID == "bind_receiver"
BindReceiverRespID == "bind_receiver_resp"
BindTransmitterID == "bind_transmitter"
BindTransmitterRespID == "bind_transmitter_resp"
QuerySmID == "query_sm"
QuerySmRespID == "query_sm_resp"
SubmitSmID == "submit_sm"
SubmitSmRespID == "submit_sm_resp"
DeliverSmID == "deliver_sm"
DeliverSmRespID == "deliver_sm_resp"
UnbindID == "unbind"
UnbindRespID == "unbind_resp"
ReplaceSmID == "replace_sm"
ReplaceSmRespID == "replace_sm_resp"
CancelSmID == "cancel_sm"
CancelSmRespID == "cancel_sm_resp"
BindTransceiverID == "bind_transceiver"
BindTransceiverRespID == "bind_transceiver_resp"
OutbindID == "outbind"
EnquireLinkID == "enquire_link"
EnquireLinkRespID == "enquire_link_resp"
SubmitMultiID == "submit_multi"
SubmitMultiRespID == "submit_multi_resp"
AlertNotificationID == "alert_notification"
DataSmID == "data_sm"
DataSmRespID == "data_sm_resp"

\* The command ids NewPDU knows.
CommandIDs ==
  { GenericNackID, BindReceiverID, BindReceiverRespID, BindTransmitterID,
    BindTransmitterRespID, QuerySmID, QuerySmRespID, SubmitSmID,
    SubmitSmRespID, DeliverSmID, DeliverSmRespID, UnbindID, UnbindRespID,
    ReplaceSmID, ReplaceSmRespID, CancelSmID, CancelSmRespID,
    BindTransceiverID, BindTransceiverRespID, OutbindID, EnquireLinkID,
    EnquireLinkRespID, SubmitMultiID, SubmitMultiRespID,
    AlertNotificationID, DataSmID, DataSmRespID }

\* pdu.IsRequest: everything that is not in the list of responses.
IsRequest(id) ==
  id \notin { GenericNackID, BindReceiverRespID, BindTransmitterRespID,
              QuerySmRespID, SubmitSmRespID, DeliverSmRespID, UnbindRespID,
              ReplaceSmRespID, CancelSmRespID, BindTransceiverRespID,
              EnquireLinkRespID, SubmitMultiRespID, DataSmRespID }

\* The PDUs whose MarshalBinary returns "not supported yet".
Unsupported ==
  { ReplaceSmID, ReplaceSmRespID, CancelSmID, CancelSmRespID, OutbindID,
    SubmitMultiID, SubmitMultiRespID, AlertNotificationID, DataSmID,
    DataSmRespID }

\* ------------------------------------------------------------- session.go
StateOpen == "Open"
StateBinding == "Binding"
StateBoundTx == "BoundTx"
StateBoundRx == "BoundRx"
StateBoundTRx == "BoundTRx"
StateUnbinding == "Unbinding"
StateClosing == "Closing"
StateClosed == "Closed"

SessionState ==
  { StateOpen, StateBinding, StateBoundTx, StateBoundRx, StateBoundTRx,
    StateUnbinding, StateClosing, StateClosed }

Bound == { StateBoundTx, StateBoundRx, StateBoundTRx }

ESME == "ESME"
SMSC == "SMSC"
SessionType == { ESME, SMSC }

\* A frame: the header fields the engine reads, with the PDU's command id.
Frame(id, seq, status) == [id |-> id, seq |-> seq, status |-> status]
NoPdu == Frame("nil", 0, 0)

\* Errors. NoErr is Go's nil error.
Err(kind, temp, status) == [kind |-> kind, temp |-> temp, status |-> status]
NoErr == Err("nil", FALSE, 0)
ErrNilPdu == Err("smpp: sending nil pdu", FALSE, 0)
ErrWindowClosed == Err("smpp: sending window closed", TRUE, 0)
ErrInvalidState == Err("smpp: processing in invalid session state", TRUE, 0)
ErrSessionClosed == Err("smpp: session closed before receiving response", FALSE, 0)
ErrContext == Err("context done", FALSE, 0)
ErrMarshal == Err("Command is not supported yet", FALSE, 0)
ErrWrite == Err("write error", FALSE, 0)
ErrSetState == Err("smpp: setting invalid state", FALSE, 0)
StatusError(status) == Err("StatusError", FALSE, status)

\* A faulty toError that loses the status.
toErrorNil(status) == NoErr

\* toError: nil for StatusOK, otherwise a StatusError carrying the status
\* (the named statuses and the "Unknown Status" default alike).
toError(status) ==
  IF status = StatusOK THEN NoErr ELSE StatusError(status)

\* A faulty setState that accepts every change.
setStateUnchecked(cur, new) == [err |-> NoErr, state |-> new]

\* setState, from state cur to state new: the error and the state after.
setState(cur, new) ==
  LET bad == [err |-> ErrSetState, state |-> cur]
      good == [err |-> NoErr, state |-> new]
  IN IF cur = new THEN bad
     ELSE CASE cur = StateOpen ->
                 IF new # StateBinding THEN bad ELSE good
            [] cur = StateBinding ->
                 IF new \in {StateOpen, StateBoundRx, StateBoundTRx, StateBoundTx}
                 THEN good ELSE bad
            [] cur \in {StateBoundRx, StateBoundTRx, StateBoundTx} ->
                 IF new \in {StateUnbinding, StateClosing} THEN good ELSE bad
            [] cur = StateUnbinding ->
                 IF new # StateClosing THEN bad ELSE good
            [] cur = StateClosing ->
                 IF new # StateClosed THEN bad ELSE good
            [] cur = StateClosed -> bad

\* A faulty state check that refuses every command id and closes the session.
makeTransitionCloses(typ, cur, id, received) ==
  [err |-> ErrInvalidState, state |-> StateClosed]

\* A faulty state check that admits every command id in every state.
makeTransitionLax(typ, cur, id, received) == [err |-> NoErr, state |-> cur]

\* makeTransition for a session of type typ in state cur, processing command
\* id, received or sent: the error and the state after.
makeTransition(typ, cur, id, received) ==
  LET same == [err |-> NoErr, state |-> cur]
      invalid == [err |-> ErrInvalidState, state |-> cur]
  IN IF (typ = ESME /\ ~received) \/ (typ = SMSC /\ received)
     THEN CASE cur = StateOpen ->
                 IF id \in {BindTransceiverID, BindTransmitterID, BindReceiverID}
                 THEN setState(cur, StateBinding) ELSE invalid
            [] cur = StateBinding ->
                 IF id = GenericNackID THEN setState(cur, StateOpen) ELSE invalid
            [] cur = StateBoundTx ->
                 IF id = UnbindID THEN setState(cur, StateUnbinding)
                 ELSE IF id \in { UnbindRespID, DeliverSmRespID, DataSmID,
                                  SubmitSmID, SubmitMultiID, DataSmRespID,
                                  EnquireLinkID, EnquireLinkRespID, ReplaceSmID,
                                  GenericNackID }
                      THEN same ELSE invalid
            [] cur = StateBoundRx ->
                 IF id = UnbindID THEN setState(cur, StateUnbinding)
                 ELSE IF id \in { UnbindRespID, DeliverSmRespID, DataSmID,
                                  DataSmRespID, EnquireLinkID, EnquireLinkRespID,
                                  GenericNackID }
                      THEN same ELSE invalid
            [] cur = StateBoundTRx ->
                 IF id = UnbindID THEN setState(cur, StateUnbinding)
                 ELSE IF id \in { SubmitSmID, SubmitSmRespID, DeliverSmRespID,
                                  DataSmID, DataSmRespID, EnquireLinkID,
                                  EnquireLinkRespID, SubmitMultiID,
                                  SubmitMultiRespID, QuerySmID, CancelSmID,
                                  GenericNackID }
                      THEN same ELSE invalid
            [] cur = StateUnbinding ->
                 IF id = UnbindRespID THEN same ELSE invalid
            [] cur \in {StateClosing, StateClosed} -> invalid
     ELSE CASE cur = StateOpen ->
                 IF id = OutbindID THEN same ELSE invalid
            [] cur = StateBinding ->
                 CASE id = BindTransceiverRespID -> setState(cur, StateBoundTRx)
                   [] id = BindTransmitterRespID -> setState(cur, StateBoundTx)
                   [] id = BindReceiverRespID -> setState(cur, StateBoundRx)
                   [] id = GenericNackID -> setState(cur, StateOpen)
                   [] OTHER -> invalid
            [] cur = StateBoundTx ->
                 IF id = UnbindID THEN setState(cur, StateUnbinding)
                 ELSE IF id \in { SubmitSmRespID, SubmitMultiRespID, DataSmID,
                                  DataSmRespID, QuerySmRespID, CancelSmRespID,
                                  ReplaceSmRespID, EnquireLinkID,
                                  EnquireLinkRespID, GenericNackID }
                      THEN same ELSE invalid
            [] cur = StateBoundRx ->
                 IF id = UnbindID THEN setState(cur, StateUnbinding)
                 ELSE IF id \in { DeliverSmID, DataSmID, DataSmRespID,
                                  EnquireLinkID, EnquireLinkRespID,
                                  AlertNotificationID, GenericNackID }
                      THEN same ELSE invalid
            [] cur = StateBoundTRx ->
                 IF id = UnbindID THEN setState(cur, StateUnbinding)
                 ELSE IF id \in { SubmitSmRespID, SubmitMultiRespID, DataSmID,
                                  DataSmRespID, DeliverSmID, QuerySmRespID,
                                  CancelSmRespID, AlertNotificationID,
                                  ReplaceSmRespID, EnquireLinkID,
                                  EnquireLinkRespID, GenericNackID }
                      THEN same ELSE invalid
            [] cur = StateUnbinding ->
                 IF id = UnbindRespID THEN same ELSE invalid
            [] cur \in {StateClosing, StateClosed} -> invalid

\* ------------------------------------------------------------ environment
\* What callers pass to Send ("nil" is a nil PDU).
SendCmds ==
  { "nil", BindTransceiverID, SubmitSmID, DeliverSmID, UnbindID, DataSmID,
    GenericNackID }

\* What the peer writes to the session.
PeerRequests == { BindTransceiverID, SubmitSmID, DeliverSmID, UnbindID }
PeerResponses ==
  { BindTransceiverRespID, SubmitSmRespID, DeliverSmRespID, UnbindRespID,
    GenericNackID }

PeerStatuses == { StatusOK, StatusInvDstAdr }

\* The response a handler builds for a request (p.Response()).
ResponseOf(id) ==
  CASE id = BindTransceiverID -> BindTransceiverRespID
    [] id = SubmitSmID -> SubmitSmRespID
    [] id = DeliverSmID -> DeliverSmRespID
    [] id = EnquireLinkID -> EnquireLinkRespID
    [] id = UnbindID -> UnbindRespID
    [] OTHER -> GenericNackID

\* The places of the handler tasks alive at one time: one more than the
\* request window admits.
HandlerIds == 1..(ReqWinSize + 1)

VARIABLES
  confType,   \* conf.Type
  state,      \* sess.state
  mu,         \* sess.mu: "free", or "Close" between Close's two setState calls
  rwc,        \* the stream: "open" or "closed"
  seqN,       \* the default sequencer's n
  reqCount,   \* sess.reqCount
  wg,         \* sess.wg's counter
  sent,       \* the keys of sess.sent
  chans,      \* the reply channels in use, each under the key it was made for
  closedSig,  \* how many times close(sess.closed) ran
  calls,      \* the Send calls waiting in select, each by the key of its slot
  srv,        \* the receive loop (serve)
  hnd,        \* the handler tasks (handleRequest)
  shutdowns,  \* Close goroutines started by shutdown() and not yet running
  closer,     \* where the Close call that got past setState(StateClosing) is
  wire,       \* the frames the latest step handed to the stream's Write
  ret,        \* what the latest step returned to its caller, if it returned
  prog,       \* a caller that makes its calls one after the other, if any
  path,       \* the states that caller's session has gone through
  server,     \* a Server: its mu, doneChan, listeners, wg and activeSess
  gor,        \* the Server's goroutine of each connection
  ssn,        \* the Server's session of each connection
  peer,       \* the peer's session of each connection
  admin,      \* the caller of Server.Unbind or Server.Close
  encN,       \* an Encoder's sequencer: defaultSequencer.n, four bytes
  stream,     \* the bytes that Encoder wrote and a Decoder has not read
  encoded,    \* what the latest Encode was given and what it returned, if
              \* its bytes were the latest to come to the stream
  decoded,    \* what the latest Decode returned, if it came after them
  tlv,        \* an Options map, the bytes it marshals to, what they unmarshal to
  calc,       \* a state check: makeTransition's arguments and its result;
              \* or the bind request that took a session to Binding
  proc,       \* the process: "running", or "crashed" by a panic
  thr,        \* goroutines followed line by line: where each one is
  onwire      \* the latest part of a frame that came to the stream

\* The session engine, the scripted caller and the Server.
sessVars ==
  << confType, state, mu, rwc, seqN, reqCount, wg, sent, chans, closedSig,
     calls, srv, hnd, shutdowns, closer, wire, ret >>
callerVars == << prog, path >>
serverVars == << server, gor, ssn, peer, admin >>
\* The codec of package pdu, the state check taken alone, and the process.
pduVars == << encN, stream, encoded, decoded, tlv >>
\* The goroutines followed line by line.
lockVars == << thr, onwire >>
libVars == << pduVars, calc, proc, lockVars >>

vars == << sessVars, callerVars, serverVars, libVars >>

Chan(st, resp, err) == [st |-> st, resp |-> resp, err |-> err]
EmptyChan == Chan("empty", NoPdu, NoErr)
ClosedChan == Chan("closed", NoPdu, NoErr)

Task(pc, id, seq) == [pc |-> pc, id |-> id, seq |-> seq]
NoTask == Task("none", "nil", 0)
Idle == [pc |-> "decode", h |-> NoPdu, to |-> 0]

\* A return of operation op ("Send", "Respond", "Close"), giving (resp, err);
\* seq is the key of the slot a Send waited on.
Ret(op, seq, resp, err) == [op |-> op, seq |-> seq, resp |-> resp, err |-> err]
NoRet == Ret("none", 0, NoPdu, NoErr)

\* f with key k set to v.
Put(f, k, v) == [x \in (DOMAIN f) \cup {k} |-> IF x = k THEN v ELSE f[x]]

\* The channels of ch that something still refers to: the table s, a
\* waiting Send of c, or the receive loop r about to deliver.
Live(ch, s, c, r) ==
  [k \in { x \in DOMAIN ch : x \in s \/ x \in c \/ x = r.to } |-> ch[k]]

\* The connections a Server may accept.
Conns == 1..MaxConns

\* One end of a connection, as the Server's model sees a session: its state
\* ("none" before NewSession), its stream, whether NotifyClosed's channel is
\* closed, the PDUs the other end wrote and it has not read ("eof" for the
\* end of stream), the request its handler is handling and where its pending
\* Send is ("none", "sent", "answered", "closed").
Sn(st, rw, closed, inbox, task, wait) ==
  [state |-> st, rwc |-> rw, closed |-> closed, inbox |-> inbox,
   task |-> task, wait |-> wait]
NoSn == Sn("none", "open", FALSE, << >>, "nil", "none")

\* The caller of Server.Unbind or Server.Close: the call, where it is, the
\* sessions Unbind's loop has still to visit and the one it is at, the
\* sessions active at the call, the listeners tracked when Close took
\* srv.mu, whether all of the sessions were bound and there were several, and
\* whether ctx is done.
Admin(op, pc, todo, cur, seen, lns, pre, ctx) ==
  [op |-> op, pc |-> pc, todo |-> todo, cur |-> cur, seen |-> seen,
   lns |-> lns, pre |-> pre, ctx |-> ctx]

\* NewServer, with Serve(ln) started on an open listener: srv.mu, whether
\* doneChan is closed, the tracked listeners, srv.wg, srv.activeSess, the
\* listener and where Serve's loop is.
NewServer ==
  /\ server = [mu |-> "free", done |-> FALSE, listeners |-> {}, wg |-> 0,
               active |-> {}, ln |-> "open", acc |-> "start"]
  /\ gor = [c \in Conns |-> "none"]
  /\ ssn = [c \in Conns |-> NoSn]
  /\ peer = [c \in Conns |-> NoSn]
  /\ admin = Admin("none", "idle", {}, 0, {}, {}, FALSE, "live")

\* No Server is followed: the session stands alone.
NoServer == NewServer

\* NewSession: the session it returns, with the receive loop started.
NewSession ==
  /\ confType \in SessionType
  /\ state = StateOpen
  /\ mu = "free"
  /\ rwc = "open"
  /\ seqN = 1
  /\ reqCount = 0
  /\ wg = 1
  /\ sent = {}
  /\ chans = << >>
  /\ closedSig = 0
  /\ calls = {}
  /\ srv = Idle
  /\ hnd = [k \in HandlerIds |-> NoTask]
  /\ shutdowns = 0
  /\ closer = "none"
  /\ wire = << >>
  /\ ret = NoRet

\* A caller's position in its script: the call it is at (i), where it is in
\* that call (pc), the slot its Send waits on (key), the error Unbind is to
\* return (err), and whether the peer and the stream cooperate (coop).
Prog(script, i, pc, key, err, coop) ==
  [script |-> script, i |-> i, pc |-> pc, key |-> key, err |-> err,
   coop |-> coop]
NoProg == Prog(<< >>, 1, "none", 0, NoErr, FALSE)

\* No scripted caller: the session's callers call what they like.
NoCaller ==
  /\ prog = NoProg
  /\ path = << >>

\* A goroutine followed line by line: the call it is in (op), where it is
\* in it (pc), the PDU it is to write or has read (id, seq, status) and, for
\* a handler task, the request it handles (req, rseq).
Thread(op, pc, id, seq, status, req, rseq) ==
  [op |-> op, pc |-> pc, id |-> id, seq |-> seq, status |-> status,
   req |-> req, rseq |-> rseq]
NoThread == Thread("none", "none", "nil", 0, 0, "nil", 0)

\* Two callers of Send, one handler task and the receive loop.
Senders == { "send1", "send2" }
Threads == Senders \cup { "handler", "serve" }

\* A part of a frame: the goroutine whose Write it comes from and which half
\* of the frame it is.
Half(by, part) == [by |-> by, part |-> part]
NoHalf == Half("none", 0)

\* No goroutine is followed line by line.
NoLock ==
  /\ thr = [t \in Threads |-> NoThread]
  /\ onwire = NoHalf

\* No codec is followed apart from the session's, no state check is taken
\* alone, and the process runs.
NoLib ==
  /\ encN = << 0, 0, 0, 1 >>
  /\ stream = << >>
  /\ encoded = [op |-> "none"]
  /\ decoded = [op |-> "none"]
  /\ tlv = [op |-> "none"]
  /\ calc = [op |-> "none"]
  /\ proc = "running"
  /\ NoLock

\* The session alone, with callers, a peer and handlers that do as they like.
Init ==
  /\ NewSession
  /\ NoCaller
  /\ NoServer
  /\ NoLib

\* defaultSequencer.Next: returns n and increments it.
SequencerNext(n) == n + 1

\* Encoder.Encode of a PDU with command id, under the options seq (0: not
\* given) and status; wok tells whether the stream's Write succeeds. Gives
\* the sequence number and error returned, the sequencer after the call and
\* the frames handed to Write.
Encode(id, seq, status, wok) ==
  IF id \in Unsupported
  THEN [seq |-> 0, err |-> ErrMarshal, seqN |-> seqN, wire |-> << >>]
  ELSE LET s == IF seq = 0 THEN seqN ELSE seq
       IN [ seq |-> s,
            err |-> IF wok THEN NoErr ELSE ErrWrite,
            seqN |-> IF seq = 0 THEN SequencerNext(seqN) ELSE seqN,
            wire |-> << [id |-> id, seq |-> s, status |-> status, ok |-> wok] >> ]

\* The sequencer is followed up to MaxSeq, and up to MaxScriptSeq for a
\* scripted caller: a call that draws a number from it is taken while seqN
\* is no larger.
InRange(e) ==
  e.seqN # seqN => seqN <= (IF prog = NoProg THEN MaxSeq ELSE MaxScriptSeq)

\* --------------------------------------------------------------- Send
\* A faulty window check that never finds the window closed.
WindowClosedNever == FALSE

\* len(sess.sent) == sess.conf.SendWinSize
WindowClosed == Cardinality(sent) = SendWinSize

\* A faulty registration that leaves the table as it was.
RegisterNothing(seq) == sent

\* sess.sent[seq] = l
Register(seq) == sent \cup {seq}

\* A faulty delete that leaves the slot in the table.
UnregisterNothing(seq) == sent

\* A faulty delete that empties the table.
UnregisterAll(seq) == {}

\* delete(sess.sent, seq)
Unregister(seq) == sent \ {seq}

\* Send fails before its request is registered.
Failed(err) ==
  /\ ret' = Ret("Send", 0, NoPdu, err)
  /\ UNCHANGED << sent, chans, calls >>

\* Send returns (resp, err) from the select on the slot with key s.
Returned(s, resp, err) ==
  /\ calls' = calls \ {s}
  /\ ret' = Ret("Send", s, resp, err)
  /\ wire' = << >>
  /\ UNCHANGED << confType, state, mu, rwc, seqN, reqCount, wg, sent,
                  closedSig, srv, hnd, shutdowns, closer >>

\* Send, up to the select: the nil check, then under the mutex the window
\* check, the state check, Encode (whose Write succeeds or fails) and the
\* registration of the reply slot.
Send(req) ==
  /\ IF req = "nil"
     THEN /\ Failed(ErrNilPdu)
          /\ wire' = << >>
          /\ UNCHANGED << state, seqN >>
     ELSE /\ mu = "free"
          /\ IF WindowClosed
             THEN /\ Failed(ErrWindowClosed)
                  /\ wire' = << >>
                  /\ UNCHANGED << state, seqN >>
             ELSE LET t == makeTransition(confType, state, req, FALSE)
                  IN IF t.err # NoErr
                     THEN /\ Failed(t.err)
                          /\ wire' = << >>
                          /\ UNCHANGED << state, seqN >>
                     ELSE \E wok \in BOOLEAN :
                            LET e == Encode(req, 0, StatusOK, wok)
                            IN /\ InRange(e)
                               /\ state' = t.state
                               /\ seqN' = e.seqN
                               /\ wire' = e.wire
                               /\ IF e.err # NoErr
                                  THEN Failed(e.err)
                                  ELSE /\ sent' = Register(e.seq)
                                       /\ chans' = Put(chans, e.seq, EmptyChan)
                                       /\ calls' = calls \cup {e.seq}
                                       /\ ret' = NoRet
  /\ UNCHANGED << confType, mu, rwc, reqCount, wg, closedSig, srv, hnd,
                  shutdowns, closer >>

\* Send's select, case resp, ok := <-l with a value in the channel.
SendReceive(s) ==
  /\ s \in calls
  /\ chans[s].st = "full"
  /\ Returned(s, chans[s].resp, chans[s].err)
  /\ chans' = Live([chans EXCEPT ![s] = EmptyChan], sent, calls', srv)

\* Send's select, case resp, ok := <-l on a closed channel.
SendClosed(s) ==
  /\ s \in calls
  /\ chans[s].st = "closed"
  /\ Returned(s, NoPdu, ErrSessionClosed)
  /\ chans' = Live(chans, sent, calls', srv)

\* Send's select, case <-ctx.Done(): the caller's context may be done at
\* any moment.
SendCtxDone(s) ==
  /\ s \in calls
  /\ Returned(s, NoPdu, ErrContext)
  /\ chans' = Live(chans, sent, calls', srv)

\* -------------------------------------------------------------- serve
\* The frames the peer may have written. A request carries status 0 and a
\* sequence number of its choice; a response carries any status and either
\* the sequence number of an outstanding request or one that matches none
\* (the sequencer's next number stands for all of these).
PeerFrames ==
  { Frame(id, seq, StatusOK) : id \in PeerRequests, seq \in 0..MaxPeerSeq }
  \cup
  { Frame(id, seq, st) : id \in PeerResponses,
                         seq \in sent \cup {seqN},
                         st \in PeerStatuses }

\* sess.dec.Decode() returns an error (end of stream, a closed stream, a
\* transport or codec error): serve calls shutdown() and returns, which runs
\* its deferred sess.wg.Done().
ServeDecodeError ==
  /\ srv.pc = "decode"
  /\ srv' = [srv EXCEPT !.pc = "exited"]
  /\ shutdowns' = shutdowns + 1
  /\ wg' = wg - 1
  /\ wire' = << >>
  /\ ret' = NoRet
  /\ UNCHANGED << confType, state, mu, rwc, seqN, reqCount, sent, chans,
                  closedSig, calls, hnd, closer >>

\* sess.throttle(seq): Encode of a generic_nack with status Throttled and the
\* sequence option seq.
throttle(seq, wok) == Encode(GenericNackID, seq, StatusThrottled, wok)

\* A faulty request-window check, comparing one too high.
ReqWindowClosedLate == reqCount = ReqWinSize + 1

\* sess.reqCount == sess.conf.ReqWinSize
ReqWindowClosed == reqCount = ReqWinSize

\* A faulty lookup that hands a response to the oldest outstanding slot,
\* whatever its sequence number.
MatchSlotOldest(h) ==
  IF sent = {} THEN 0 ELSE CHOOSE k \in sent : \A j \in sent : k <= j

\* l, ok := sess.sent[h.Sequence()]: the key of the slot a response goes to,
\* 0 when there is none.
MatchSlot(h) == IF h.seq \in sent THEN h.seq ELSE 0

\* go sess.handleRequest(ctx, h, p): the task takes the first free place.
FreeTask == CHOOSE k \in HandlerIds :
              /\ hnd[k].pc = "none"
              /\ \A j \in HandlerIds : hnd[j].pc = "none" => k <= j

\* One turn of serve's loop: sess.dec.Decode() returns the frame h, then
\* under the mutex the state check, for a request the throttle reply or the
\* start of a handler task, and for a response the removal of its slot.
Serve(h) ==
  /\ srv.pc = "decode"
  /\ rwc = "open"
  /\ mu = "free"
  /\ ret' = NoRet
  /\ LET t == makeTransition(confType, state, h.id, TRUE)
         k == MatchSlot(h)
     IN IF t.err # NoErr
        THEN /\ wire' = << >>
             /\ UNCHANGED << state, seqN, reqCount, wg, hnd, sent, srv >>
        ELSE /\ state' = t.state
             /\ IF IsRequest(h.id)
                THEN /\ IF ReqWindowClosed
                        THEN \E wok \in BOOLEAN :
                               LET e == throttle(h.seq, wok)
                               IN /\ InRange(e)
                                  /\ seqN' = e.seqN
                                  /\ wire' = e.wire
                                  /\ UNCHANGED << reqCount, wg, hnd >>
                        ELSE /\ wg' = wg + 1
                             /\ reqCount' = reqCount + 1
                             /\ hnd' = [hnd EXCEPT ![FreeTask] = Task("running", h.id, h.seq)]
                             /\ wire' = << >>
                             /\ seqN' = seqN
                     /\ UNCHANGED << sent, srv >>
                ELSE /\ IF k # 0
                        THEN /\ sent' = Unregister(k)
                             /\ srv' = [pc |-> "deliver", h |-> h, to |-> k]
                        ELSE UNCHANGED << sent, srv >>
                     /\ wire' = << >>
                     /\ UNCHANGED << seqN, reqCount, wg, hnd >>
  /\ UNCHANGED << confType, mu, rwc, chans, closedSig, calls, shutdowns,
                  closer >>

\* l <- response{resp: p, err: toError(h.Status())}, outside the mutex. The
\* channel has room for one value; a send on a closed channel panics.
ServeDeliver ==
  /\ srv.pc = "deliver"
  /\ chans[srv.to].st # "full"
  /\ IF chans[srv.to].st = "closed"
     THEN /\ srv' = [pc |-> "panicked", h |-> NoPdu, to |-> 0]
          /\ chans' = Live(chans, sent, calls, srv')
     ELSE /\ srv' = Idle
          /\ chans' = Live([chans EXCEPT ![srv.to] =
                              Chan("full", srv.h, toError(srv.h.status))],
                           sent, calls, srv')
  /\ wire' = << >>
  /\ ret' = NoRet
  /\ UNCHANGED << confType, state, mu, rwc, seqN, reqCount, wg, sent,
                  closedSig, calls, hnd, shutdowns, closer >>

\* ------------------------------------------------- handleRequest, Respond
\* What a handler passes to Respond for the request it handles.
RespondCmds(id) == { ResponseOf(id), GenericNackID }
RespondStatuses == { StatusOK, StatusSysErr }

\* The sequence option Respond gives to Encode: the seq field that
\* handleRequest puts in the Context, h.Sequence().
RespondSeq(k) == hnd[k].seq

\* Context.Respond(resp, status) in handler task k: the state check for
\* sending resp, then Encode, all under the mutex.
Respond(k, resp, status) ==
  /\ hnd[k].pc = "running"
  /\ mu = "free"
  /\ LET t == makeTransition(confType, state, resp, FALSE)
     IN IF t.err # NoErr
        THEN /\ ret' = Ret("Respond", 0, NoPdu, t.err)
             /\ wire' = << >>
             /\ UNCHANGED << state, seqN >>
        ELSE \E wok \in BOOLEAN :
               LET e == Encode(resp, RespondSeq(k), status, wok)
               IN /\ InRange(e)
                  /\ ret' = Ret("Respond", 0, NoPdu, e.err)
                  /\ state' = t.state
                  /\ seqN' = e.seqN
                  /\ wire' = e.wire
  /\ UNCHANGED << confType, mu, rwc, reqCount, wg, sent, chans, closedSig,
                  calls, srv, hnd, shutdowns, closer >>

\* Handler.ServeSMPP returns in task k; close tells whether the handler
\* called ctx.CloseSession(), in which case handleRequest calls shutdown().
HandlerReturn(k, close) ==
  /\ hnd[k].pc = "running"
  /\ close => shutdowns < MaxShutdowns
  /\ hnd' = [hnd EXCEPT ![k] = Task("deferred", "nil", 0)]
  /\ shutdowns' = IF close THEN shutdowns + 1 ELSE shutdowns
  /\ wire' = << >>
  /\ ret' = NoRet
  /\ UNCHANGED << confType, state, mu, rwc, seqN, reqCount, wg, sent, chans,
                  closedSig, calls, srv, closer >>

\* A faulty deferred function that ends the task and leaves the counter.
HandlerDoneUncounted(k) ==
  /\ hnd[k].pc = "deferred"
  /\ mu = "free"
  /\ hnd' = [hnd EXCEPT ![k] = NoTask]
  /\ wg' = wg - 1
  /\ wire' = << >>
  /\ ret' = NoRet
  /\ UNCHANGED << confType, state, mu, rwc, seqN, reqCount, sent, chans,
                  closedSig, calls, srv, shutdowns, closer >>

\* handleRequest's deferred function: sess.reqCount-- under the mutex, then
\* sess.wg.Done(), which ends the task.
HandlerDone(k) ==
  /\ hnd[k].pc = "deferred"
  /\ mu = "free"
  /\ hnd' = [hnd EXCEPT ![k] = NoTask]
  /\ reqCount' = reqCount - 1
  /\ wg' = wg - 1
  /\ wire' = << >>
  /\ ret' = NoRet
  /\ UNCHANGED << confType, state, mu, rwc, seqN, sent, chans, closedSig,
                  calls, srv, shutdowns, closer >>

\* ---------------------------------------------------------------- Close
\* A faulty loop that deletes the slots without closing their channels.
CloseSlotsForgotten == chans

\* A faulty loop that closes every channel, also those no longer in the
\* table.
CloseSlotsAll == [k \in DOMAIN chans |-> ClosedChan]

\* Close's loop over sess.sent: close(l) for every slot.
CloseSlots == [k \in DOMAIN chans |-> IF k \in sent THEN ClosedChan ELSE chans[k]]

\* Close, from Lock to rwc.Close(): setState(StateClosing), the slots, the
\* stream. byShutdown tells the call of a goroutine started by shutdown()
\* from a call of the session's owner. A call that fails setState unlocks
\* and returns the error.
CloseBegin(byShutdown) ==
  /\ mu = "free"
  /\ byShutdown => shutdowns > 0
  /\ LET t == setState(state, StateClosing)
     IN IF t.err # NoErr
        THEN /\ ret' = Ret("Close", 0, NoPdu, t.err)
             /\ UNCHANGED << state, mu, rwc, sent, chans, closer >>
        ELSE /\ state' = t.state
             /\ sent' = {}
             /\ chans' = Live(CloseSlots, {}, calls, srv)
             /\ rwc' = "closed"
             /\ mu' = "Close"
             /\ closer' = "locked"
             /\ ret' = NoRet
  /\ shutdowns' = IF byShutdown THEN shutdowns - 1 ELSE shutdowns
  /\ wire' = << >>
  /\ UNCHANGED << confType, seqN, reqCount, wg, closedSig, calls, srv, hnd >>

\* Close, from setState(StateClosed) to Unlock.
CloseEnd ==
  /\ closer = "locked"
  /\ state' = setState(state, StateClosed).state
  /\ mu' = "free"
  /\ closer' = "wait"
  /\ wire' = << >>
  /\ ret' = NoRet
  /\ UNCHANGED << confType, rwc, seqN, reqCount, wg, sent, chans, closedSig,
                  calls, srv, hnd, shutdowns >>

\* A faulty Close that does not wait for the tasks.
DrainedAtOnce == TRUE

\* sess.wg.Wait() returns.
Drained == wg = 0

\* Close, from wg.Wait() to return nil: close(sess.closed).
CloseFinish ==
  /\ closer = "wait"
  /\ Drained
  /\ closedSig' = closedSig + 1
  /\ closer' = "done"
  /\ ret' = Ret("Close", 0, NoPdu, NoErr)
  /\ wire' = << >>
  /\ UNCHANGED << confType, state, mu, rwc, seqN, reqCount, wg, sent, chans,
                  calls, srv, hnd, shutdowns >>

\* ------------------------------------------------------------------ Spec
\* What the session's steps leave alone.
SessionOnly == UNCHANGED << callerVars, serverVars, libVars >>

Next ==
  \/ \E req \in SendCmds : Send(req) /\ SessionOnly
  \/ \E s \in calls : SendReceive(s) /\ SessionOnly
  \/ \E s \in calls : SendClosed(s) /\ SessionOnly
  \/ \E s \in calls : SendCtxDone(s) /\ SessionOnly
  \/ ServeDecodeError /\ SessionOnly
  \/ \E h \in PeerFrames : Serve(h) /\ SessionOnly
  \/ ServeDeliver /\ SessionOnly
  \/ \E k \in HandlerIds, st \in RespondStatuses :
       \E resp \in RespondCmds(hnd[k].id) : Respond(k, resp, st) /\ SessionOnly
  \/ \E k \in HandlerIds, close \in BOOLEAN :
       HandlerReturn(k, close) /\ SessionOnly
  \/ \E k \in HandlerIds : HandlerDone(k) /\ SessionOnly
  \/ \E byShutdown \in BOOLEAN : CloseBegin(byShutdown) /\ SessionOnly
  \/ CloseEnd /\ SessionOnly
  \/ CloseFinish /\ SessionOnly

Spec == Init /\ [][Next]_vars

\* --------------------------------------------------------- scripted caller
\* A call of a script: Send(ctx, req), sess.Close() or Unbind(ctx, sess).
Call(call, req) == [call |-> call, req |-> req]

\* TestESMESession: bind, submit, unbind, close.
ESMEFlow ==
  << Call("Send", BindTransceiverID), Call("Send", SubmitSmID),
     Call("Send", UnbindID), Call("Close", "nil") >>

\* The scripts: the ESME flow, and Unbind on a new session and after a bind.
Scripts ==
  { ESMEFlow,
    << Call("Unbind", "nil") >>,
    << Call("Send", BindTransceiverID), Call("Unbind", "nil") >> }

\* The call the caller is at, and whether it has made them all.
Finished == prog.i > Len(prog.script)
Op == prog.script[prog.i]
Advance == [prog EXCEPT !.i = @ + 1, !.pc = "ready", !.key = 0, !.err = NoErr]

\* The states gone through are recorded under a cooperative peer.
Track == IF prog.coop /\ state' # state THEN Append(path, state') ELSE path

\* What a step of the session does not touch when a scripted caller runs.
Kept ==
  /\ path' = Track
  /\ UNCHANGED << serverVars, libVars >>

\* A step of the session that is not the caller's.
Aside ==
  /\ prog' = prog
  /\ Kept

\* On a cooperative stream every Write succeeds.
CoopWrite == prog.coop => \A i \in 1..Len(wire') : wire'[i].ok

\* A cooperative peer answers the request the caller waits on with the
\* matching response and status OK, and sends nothing else.
CoopFrames ==
  IF prog.pc = "wait" /\ prog.key \in sent
  THEN { Frame(ResponseOf(IF Op.call = "Unbind" THEN UnbindID ELSE Op.req),
               prog.key, StatusOK) }
  ELSE {}

ScriptFrames == IF prog.coop THEN CoopFrames ELSE PeerFrames

\* Where the caller is once Send has registered its slot or has failed.
AfterSend(failed) ==
  IF ret'.op = "Send"
  THEN failed
  ELSE [prog EXCEPT !.pc = "wait", !.key = CHOOSE k \in calls' \ calls : TRUE]

\* The caller calls sess.Send(ctx, req).
ScriptSend ==
  /\ prog.pc = "ready"
  /\ ~Finished
  /\ Op.call = "Send"
  /\ Send(Op.req)
  /\ CoopWrite
  /\ prog' = AfterSend(Advance)
  /\ Kept

\* The caller's Send returns from its select; under a cooperative peer the
\* context is not done before the response.
ScriptSendReturn ==
  /\ prog.pc = "wait"
  /\ Op.call = "Send"
  /\ \/ SendReceive(prog.key)
     \/ SendClosed(prog.key)
     \/ ~prog.coop /\ SendCtxDone(prog.key)
  /\ prog' = Advance
  /\ Kept

\* Where the caller is once Close has failed or has closed the stream.
AfterClose(failed) ==
  IF ret'.op = "Close" THEN failed ELSE [prog EXCEPT !.pc = "closing"]

\* The caller calls sess.Close().
ScriptClose ==
  /\ prog.pc = "ready"
  /\ ~Finished
  /\ Op.call = "Close"
  /\ CloseBegin(FALSE)
  /\ prog' = AfterClose(Advance)
  /\ Kept

\* The caller's Close returns nil.
ScriptCloseReturn ==
  /\ prog.pc = "closing"
  /\ Op.call = "Close"
  /\ CloseFinish
  /\ prog' = Advance
  /\ Kept

\* Unbind: sess.Send(ctx, pdu.Unbind{}).
UnbindSend ==
  /\ prog.pc = "ready"
  /\ ~Finished
  /\ Op.call = "Unbind"
  /\ Send(UnbindID)
  /\ CoopWrite
  /\ prog' = AfterSend([prog EXCEPT !.pc = "defer", !.err = ret'.err])
  /\ Kept

\* Unbind: its Send returns, with the response, on a closed slot or on the
\* context.
UnbindSendReturn ==
  /\ prog.pc = "wait"
  /\ Op.call = "Unbind"
  /\ \/ SendReceive(prog.key)
     \/ SendClosed(prog.key)
     \/ ~prog.coop /\ SendCtxDone(prog.key)
  /\ prog' = [prog EXCEPT !.pc = "defer", !.key = 0, !.err = ret'.err]
  /\ Kept

\* Unbind: the deferred sess.Close(), whose error is dropped.
UnbindClose ==
  /\ prog.pc = "defer"
  /\ CloseBegin(FALSE)
  /\ prog' = AfterClose([prog EXCEPT !.pc = "return"])
  /\ Kept

\* Unbind: the deferred Close returns nil.
UnbindCloseReturn ==
  /\ prog.pc = "closing"
  /\ Op.call = "Unbind"
  /\ CloseFinish
  /\ prog' = [prog EXCEPT !.pc = "return"]
  /\ Kept

\* Unbind returns the error of its Send.
UnbindReturn ==
  /\ prog.pc = "return"
  /\ ret' = Ret("Unbind", 0, NoPdu, prog.err)
  /\ wire' = << >>
  /\ prog' = Advance
  /\ UNCHANGED << confType, state, mu, rwc, seqN, reqCount, wg, sent, chans,
                  closedSig, calls, srv, hnd, shutdowns, closer >>
  /\ Kept

\* The session with one caller that follows a script, under a peer that
\* cooperates or does as it likes.
CallerInit ==
  /\ NewSession
  /\ \E script \in Scripts, coop \in BOOLEAN :
       prog = Prog(script, 1, "ready", 0, NoErr, coop)
  /\ path = << StateOpen >>
  /\ NoServer
  /\ NoLib

CallerNext ==
  \/ ScriptSend
  \/ ScriptSendReturn
  \/ ScriptClose
  \/ ScriptCloseReturn
  \/ UnbindSend
  \/ UnbindSendReturn
  \/ UnbindClose
  \/ UnbindCloseReturn
  \/ UnbindReturn
  \/ \E h \in ScriptFrames : Serve(h) /\ CoopWrite /\ Aside
  \/ ServeDeliver /\ Aside
  \/ (prog.coop => rwc = "closed") /\ ServeDecodeError /\ Aside
  \/ \E k \in HandlerIds, st \in RespondStatuses :
       \E resp \in RespondCmds(hnd[k].id) : Respond(k, resp, st) /\ Aside
  \/ \E k \in HandlerIds, close \in BOOLEAN : HandlerReturn(k, close) /\ Aside
  \/ \E k \in HandlerIds : HandlerDone(k) /\ Aside
  \/ CloseBegin(TRUE) /\ Aside
  \/ CloseEnd /\ Aside
  \/ prog.pc # "closing" /\ CloseFinish /\ Aside

CallerSpec == CallerInit /\ [][CallerNext]_vars

\* -------------------------------------------------------------- server.go
\* What the Server's steps leave alone.
ServerOnly == UNCHANGED << sessVars, callerVars, libVars >>

\* The handlers of TestSMPPServer: the Server's answers bind_transceiver, the
\* peers' answer unbind.
Answered(typ) == IF typ = SMSC THEN { BindTransceiverID } ELSE { UnbindID }

\* A faulty stream whose closing the other end never reads.
LinkSilent(before, after, other) == other

\* rwc.Close() as the other end sees it: when the step closed this end's
\* stream, the other end's reads come to the end of the stream.
Link(before, after, other) ==
  IF before.rwc = "open" /\ after.rwc = "closed"
  THEN [other EXCEPT !.inbox = Append(@, "eof")]
  ELSE other

\* The other end's unread PDUs after this end wrote id ("nil": nothing).
Wrote(other, id) ==
  IF id = "nil" THEN other ELSE [other EXCEPT !.inbox = Append(@, id)]

\* Whether Session.Close on s fails in setState(StateClosing).
SnCloseFails(s) == setState(s.state, StateClosing).err # NoErr

\* Session.Close on s, up to wg.Wait(): a failed call leaves s as it is, a
\* successful one sets Closing then Closed, closes the slots and the stream.
SnClose(s) ==
  IF SnCloseFails(s)
  THEN s
  ELSE [s EXCEPT !.state = setState(StateClosing, StateClosed).state,
                 !.rwc = "closed",
                 !.wait = IF @ = "sent" THEN "closed" ELSE @]

\* One turn of serve on s, a session of type typ: the end of the stream
\* starts shutdown()'s Close; a PDU the state check refuses is dropped; a
\* request starts its handler; a response goes to the pending Send.
SnServe(typ, s) ==
  LET h == Head(s.inbox)
      t == makeTransition(typ, s.state, h, TRUE)
      read == [s EXCEPT !.inbox = Tail(@)]
  IN IF h = "eof" THEN SnClose(read)
     ELSE IF t.err # NoErr THEN read
     ELSE IF IsRequest(h)
          THEN [read EXCEPT !.state = t.state, !.task = h]
          ELSE [read EXCEPT !.state = t.state,
                            !.wait = IF @ = "sent" THEN "answered" ELSE @]

\* What the handler of s writes: the response to its request, with
\* ctx.Respond, when it answers that request, the state check permits the
\* response and the stream is open.
SnResponse(typ, s) ==
  IF /\ s.task \in Answered(typ)
     /\ makeTransition(typ, s.state, ResponseOf(s.task), FALSE).err = NoErr
     /\ s.rwc = "open"
  THEN ResponseOf(s.task)
  ELSE "nil"

\* The handler of s runs to its end.
SnRespond(typ, s) ==
  IF s.task \in Answered(typ)
  THEN [s EXCEPT !.state = makeTransition(typ, @, ResponseOf(s.task), FALSE).state,
                 !.task = "nil"]
  ELSE [s EXCEPT !.task = "nil"]

\* Serve(ln): srv.trackListener(ln, true), which gives the Server a new
\* doneChan when nothing is tracked.
ServeTrack ==
  /\ server.acc = "start"
  /\ server.mu = "free"
  /\ server' = [server EXCEPT
                  !.done = IF server.listeners = {} /\ server.active = {}
                           THEN FALSE ELSE @,
                  !.listeners = @ \cup {"ln"},
                  !.acc = "accept"]
  /\ UNCHANGED << gor, ssn, peer, admin >>
  /\ ServerOnly

\* Serve(ln): ln.Accept() returns connection c, which a peer has dialled; the
\* peer holds a new session on it; srv.wg.Add(1) and the goroutine starts.
Accept(c) ==
  /\ server.acc = "accept"
  /\ server.ln = "open"
  /\ gor[c] = "none"
  /\ server' = [server EXCEPT !.wg = @ + 1]
  /\ gor' = [gor EXCEPT ![c] = "start"]
  /\ peer' = [peer EXCEPT ![c].state = StateOpen]
  /\ UNCHANGED << ssn, admin >>
  /\ ServerOnly

\* Serve(ln): ln.Accept() fails on the closed listener and Serve returns, nil
\* when doneChan is closed and the error otherwise.
AcceptFails ==
  /\ server.acc = "accept"
  /\ server.ln = "closed"
  /\ server.mu = "free"
  /\ server' = [server EXCEPT !.acc = IF server.done THEN "nil" ELSE "error"]
  /\ UNCHANGED << gor, ssn, peer, admin >>
  /\ ServerOnly

\* The goroutine of connection c: NewSession(conn, conf) and
\* srv.trackSess(sess, true).
GorTrack(c) ==
  /\ gor[c] = "start"
  /\ server.mu = "free"
  /\ ssn' = [ssn EXCEPT ![c].state = StateOpen]
  /\ server' = [server EXCEPT !.active = @ \cup {c}]
  /\ gor' = [gor EXCEPT ![c] = "tracked"]
  /\ UNCHANGED << peer, admin >>
  /\ ServerOnly

\* The goroutine enters its select: srv.getDoneChan() takes srv.mu.
GorSelect(c) ==
  /\ gor[c] = "tracked"
  /\ server.mu = "free"
  /\ gor' = [gor EXCEPT ![c] = "select"]
  /\ UNCHANGED << server, ssn, peer, admin >>
  /\ ServerOnly

\* case <-sess.NotifyClosed()
GorNotified(c) ==
  /\ gor[c] = "select"
  /\ ssn[c].closed
  /\ gor' = [gor EXCEPT ![c] = "untrack"]
  /\ UNCHANGED << server, ssn, peer, admin >>
  /\ ServerOnly

\* case <-srv.getDoneChan(): sess.Close(), whose error is dropped.
GorClose(c) ==
  /\ gor[c] = "select"
  /\ server.done
  /\ ssn' = [ssn EXCEPT ![c] = SnClose(@)]
  /\ peer' = [peer EXCEPT ![c] = Link(ssn[c], ssn'[c], @)]
  /\ gor' = [gor EXCEPT ![c] = IF SnCloseFails(ssn[c]) THEN "untrack"
                                ELSE "closing"]
  /\ UNCHANGED << server, admin >>
  /\ ServerOnly

\* That sess.Close() returns nil.
GorCloseReturn(c) ==
  /\ gor[c] = "closing"
  /\ ssn[c].closed
  /\ gor' = [gor EXCEPT ![c] = "untrack"]
  /\ UNCHANGED << server, ssn, peer, admin >>
  /\ ServerOnly

\* srv.trackSess(sess, false) and the deferred srv.wg.Done().
GorUntrack(c) ==
  /\ gor[c] = "untrack"
  /\ server.mu = "free"
  /\ server' = [server EXCEPT !.active = @ \ {c}, !.wg = @ - 1]
  /\ gor' = [gor EXCEPT ![c] = "done"]
  /\ UNCHANGED << ssn, peer, admin >>
  /\ ServerOnly

\* The peer of connection c binds: Send(bind_transceiver) on its session.
PeerBind(c) ==
  /\ peer[c].state = StateOpen
  /\ peer[c].rwc = "open"
  /\ peer' = [peer EXCEPT ![c].state =
                makeTransition(ESME, @, BindTransceiverID, FALSE).state]
  /\ ssn' = [ssn EXCEPT ![c] = Wrote(@, BindTransceiverID)]
  /\ UNCHANGED << server, gor, admin >>
  /\ ServerOnly

\* The receive loop of the Server's session of c reads.
SessionServe(c) ==
  /\ ssn[c].state # "none"
  /\ ssn[c].rwc = "open"
  /\ ssn[c].inbox # << >>
  /\ ssn' = [ssn EXCEPT ![c] = SnServe(SMSC, @)]
  /\ peer' = [peer EXCEPT ![c] = Link(ssn[c], ssn'[c], @)]
  /\ UNCHANGED << server, gor, admin >>
  /\ ServerOnly

\* The handler of the Server's session of c runs.
SessionRespond(c) ==
  /\ ssn[c].task # "nil"
  /\ ssn' = [ssn EXCEPT ![c] = SnRespond(SMSC, @)]
  /\ peer' = [peer EXCEPT ![c] = Wrote(@, SnResponse(SMSC, ssn[c]))]
  /\ UNCHANGED << server, gor, admin >>
  /\ ServerOnly

\* The successful Close of the Server's session of c comes out of wg.Wait()
\* and closes sess.closed.
SessionDrained(c) ==
  /\ ssn[c].state = StateClosed
  /\ ~ssn[c].closed
  /\ ssn[c].task = "nil"
  /\ ssn' = [ssn EXCEPT ![c].closed = TRUE]
  /\ UNCHANGED << server, gor, peer, admin >>
  /\ ServerOnly

\* The same three steps of the peer's session of c.
PeerServe(c) ==
  /\ peer[c].state # "none"
  /\ peer[c].rwc = "open"
  /\ peer[c].inbox # << >>
  /\ peer' = [peer EXCEPT ![c] = SnServe(ESME, @)]
  /\ ssn' = [ssn EXCEPT ![c] = Link(peer[c], peer'[c], @)]
  /\ UNCHANGED << server, gor, admin >>
  /\ ServerOnly

PeerRespond(c) ==
  /\ peer[c].task # "nil"
  /\ peer' = [peer EXCEPT ![c] = SnRespond(ESME, @)]
  /\ ssn' = [ssn EXCEPT ![c] = Wrote(@, SnResponse(ESME, peer[c]))]
  /\ UNCHANGED << server, gor, admin >>
  /\ ServerOnly

PeerDrained(c) ==
  /\ peer[c].state = StateClosed
  /\ ~peer[c].closed
  /\ peer[c].task = "nil"
  /\ peer' = [peer EXCEPT ![c].closed = TRUE]
  /\ UNCHANGED << server, gor, ssn, admin >>
  /\ ServerOnly

\* Server.Unbind(ctx) is called: srv.mu.Lock() and the range over
\* srv.activeSess.
ServerUnbind ==
  /\ admin.pc = "idle"
  /\ server.mu = "free"
  /\ server' = [server EXCEPT !.mu = "Unbind"]
  /\ admin' = Admin("Unbind", "loop", server.active, 0, server.active, {},
                    /\ Cardinality(server.active) >= 2
                    /\ \A c \in server.active : ssn[c].state \in Bound,
                    "live")
  /\ UNCHANGED << gor, ssn, peer >>
  /\ ServerOnly

\* The loop takes session c: Unbind(ctx, sess) calls sess.Send(ctx,
\* pdu.Unbind{}), which fails in the state check or writes the unbind and
\* waits.
SrvUnbindSend(c) ==
  /\ admin.pc = "loop"
  /\ c \in admin.todo
  /\ LET t == makeTransition(SMSC, ssn[c].state, UnbindID, FALSE)
     IN IF t.err # NoErr
        THEN /\ admin' = [admin EXCEPT !.pc = "defer", !.cur = c]
             /\ UNCHANGED << ssn, peer >>
        ELSE /\ admin' = [admin EXCEPT !.pc = "wait", !.cur = c]
             /\ ssn' = [ssn EXCEPT ![c].state = t.state, ![c].wait = "sent"]
             /\ peer' = [peer EXCEPT ![c] = Wrote(@, UnbindID)]
  /\ UNCHANGED << server, gor >>
  /\ ServerOnly

\* That Send returns: with the response, on its closed slot or on ctx.
SrvUnbindSendReturn ==
  /\ admin.pc = "wait"
  /\ ssn[admin.cur].wait \in {"answered", "closed"} \/ admin.ctx = "done"
  /\ ssn' = [ssn EXCEPT ![admin.cur].wait = "none"]
  /\ admin' = [admin EXCEPT !.pc = "defer"]
  /\ UNCHANGED << server, gor, peer >>
  /\ ServerOnly

\* Unbind's deferred sess.Close(), whose error is dropped.
SrvUnbindClose ==
  /\ admin.pc = "defer"
  /\ ssn' = [ssn EXCEPT ![admin.cur] = SnClose(@)]
  /\ peer' = [peer EXCEPT ![admin.cur] = Link(ssn[admin.cur], ssn'[admin.cur], @)]
  /\ admin' = IF SnCloseFails(ssn[admin.cur])
              THEN [admin EXCEPT !.pc = "loop", !.todo = @ \ {admin.cur}, !.cur = 0]
              ELSE [admin EXCEPT !.pc = "closing"]
  /\ UNCHANGED << server, gor >>
  /\ ServerOnly

\* That Close returns nil and the loop goes on.
SrvUnbindCloseReturn ==
  /\ admin.pc = "closing"
  /\ ssn[admin.cur].closed
  /\ admin' = [admin EXCEPT !.pc = "loop", !.todo = @ \ {admin.cur}, !.cur = 0]
  /\ UNCHANGED << server, gor, ssn, peer >>
  /\ ServerOnly

\* The loop is over: srv.mu.Unlock(), then return srv.Close().
SrvUnbindUnlock ==
  /\ admin.pc = "loop"
  /\ admin.todo = {}
  /\ server' = [server EXCEPT !.mu = "free"]
  /\ admin' = [admin EXCEPT !.pc = "close"]
  /\ UNCHANGED << gor, ssn, peer >>
  /\ ServerOnly

\* ctx is done.
CtxDone ==
  /\ admin.op = "Unbind"
  /\ admin.pc # "returned"
  /\ admin.ctx = "live"
  /\ admin' = [admin EXCEPT !.ctx = "done"]
  /\ UNCHANGED << server, gor, ssn, peer >>
  /\ ServerOnly

\* Server.Close, called by Unbind or (direct) by the Server's owner: under
\* srv.mu, closeDoneChanLocked and closeListenersLocked.
ServerClose(direct) ==
  /\ admin.pc = IF direct THEN "idle" ELSE "close"
  /\ server.mu = "free"
  /\ server' = [server EXCEPT
                  !.done = TRUE,
                  !.ln = IF "ln" \in server.listeners THEN "closed" ELSE @,
                  !.listeners = {}]
  /\ admin' = IF direct
              THEN Admin("Close", "wgwait", {}, 0, server.active,
                         server.listeners, FALSE, "live")
              ELSE [admin EXCEPT !.pc = "wgwait", !.lns = server.listeners]
  /\ UNCHANGED << gor, ssn, peer >>
  /\ ServerOnly

\* Server.Close: srv.wg.Wait() returns, and Close (and Unbind) with it.
ServerCloseReturn ==
  /\ admin.pc = "wgwait"
  /\ server.wg = 0
  /\ admin' = [admin EXCEPT !.pc = "returned"]
  /\ UNCHANGED << server, gor, ssn, peer >>
  /\ ServerOnly

\* A Server with its sessions and their peers; the session engine above is
\* not followed.
ServerInit ==
  /\ NewSession
  /\ confType = SMSC
  /\ NoCaller
  /\ NewServer
  /\ NoLib

\* The steps that are taken once they can be: everything but a new
\* connection, a peer's bind, a call of the Server's owner and ctx's end.
ServerProgress ==
  \/ ServeTrack
  \/ AcceptFails
  \/ \E c \in Conns : GorTrack(c)
  \/ \E c \in Conns : GorSelect(c)
  \/ \E c \in Conns : GorNotified(c)
  \/ \E c \in Conns : GorClose(c)
  \/ \E c \in Conns : GorCloseReturn(c)
  \/ \E c \in Conns : GorUntrack(c)
  \/ \E c \in Conns : SessionServe(c)
  \/ \E c \in Conns : SessionRespond(c)
  \/ \E c \in Conns : SessionDrained(c)
  \/ \E c \in Conns : PeerServe(c)
  \/ \E c \in Conns : PeerRespond(c)
  \/ \E c \in Conns : PeerDrained(c)
  \/ \E c \in Conns : SrvUnbindSend(c)
  \/ SrvUnbindSendReturn
  \/ SrvUnbindClose
  \/ SrvUnbindCloseReturn
  \/ SrvUnbindUnlock
  \/ ServerClose(FALSE)
  \/ ServerCloseReturn

ServerNext ==
  \/ ServerProgress
  \/ \E c \in Conns : Accept(c)
  \/ \E c \in Conns : PeerBind(c)
  \/ ServerUnbind
  \/ ServerClose(TRUE)
  \/ CtxDone

ServerSpec == ServerInit /\ [][ServerNext]_vars /\ WF_vars(ServerProgress)

\* ------------------------------------------------- a handler that panics
\* Handler.ServeSMPP panics in task k: the task starts to unwind.
HandlerPanic(k) ==
  /\ proc = "running"
  /\ hnd[k].pc = "running"
  /\ hnd' = [hnd EXCEPT ![k] = Task("panicking", "nil", 0)]
  /\ wire' = << >>
  /\ ret' = NoRet
  /\ UNCHANGED << confType, state, mu, rwc, seqN, reqCount, wg, sent, chans,
                  closedSig, calls, srv, shutdowns, closer >>
  /\ SessionOnly

\* The unwinding runs handleRequest's deferred function, sess.reqCount--
\* under the mutex and sess.wg.Done(); nothing recovers the panic, which
\* leaves the goroutine's first function and ends the process, and with it
\* every goroutine of every session.
PanicUnwind(k) ==
  /\ proc = "running"
  /\ hnd[k].pc = "panicking"
  /\ mu = "free"
  /\ hnd' = [hnd EXCEPT ![k] = NoTask]
  /\ reqCount' = reqCount - 1
  /\ wg' = wg - 1
  /\ proc' = "crashed"
  /\ wire' = << >>
  /\ ret' = NoRet
  /\ UNCHANGED << confType, state, mu, rwc, seqN, sent, chans, closedSig,
                  calls, srv, shutdowns, closer >>
  /\ UNCHANGED << callerVars, serverVars, pduVars, calc, lockVars >>

\* The session with handlers that may panic; a process that has crashed
\* takes no step.
PanicNext ==
  \/ proc = "running" /\ Next
  \/ \E k \in HandlerIds : HandlerPanic(k)
  \/ \E k \in HandlerIds : PanicUnwind(k)

PanicSpec == Init /\ [][PanicNext]_vars

\* -------------------------------------------------- the codec of package pdu
\* A byte is a number of 0..255 and a string the sequence of its bytes. A
\* uint32 that can pass 2^31 (a sequence number, a command id) is kept as its
\* four bytes, the most significant first, so that it has its width.

\* binary.BigEndian.PutUint32 of a number below 2^31.
PutUint32(n) ==
  << n \div 16777216, (n \div 65536) % 256, (n \div 256) % 256, n % 256 >>

\* binary.BigEndian.Uint32 of four bytes whose value is below 2^31.
Uint32(b) == b[1] * 16777216 + b[2] * 65536 + b[3] * 256 + b[4]

\* binary.BigEndian.PutUint16(uint16(n)): the conversion drops what is above
\* 16 bits.
PutUint16(n) == << (n % 65536) \div 256, n % 256 >>

\* binary.BigEndian.Uint16
Uint16(b) == b[1] * 256 + b[2]

\* n++ of a uint32 kept as four bytes: the carry runs to the first byte and
\* is dropped there.
Inc32(w) ==
  IF w[4] < 255 THEN << w[1], w[2], w[3], w[4] + 1 >>
  ELSE IF w[3] < 255 THEN << w[1], w[2], w[3] + 1, 0 >>
  ELSE IF w[2] < 255 THEN << w[1], w[2] + 1, 0, 0 >>
  ELSE << (w[1] + 1) % 256, 0, 0, 0 >>

\* The range of the sequence numbers.
SequenceStart == << 0, 0, 0, 1 >>
SequenceEnd == << 127, 255, 255, 255 >>

\* NewSequencer(n): a start of 0 is taken as 1.
NewSequencer(n) == IF n = << 0, 0, 0, 0 >> THEN << 0, 0, 0, 1 >> ELSE n

\* defaultSequencer.Next of a sequencer at n: the value returned and the
\* sequencer after the call.
defaultSequencerNext(n) == [ret |-> n, n |-> Inc32(n)]

\* The errors of the codec.
ErrOptBody == Err("smpp/pdu: invalid optional body length", FALSE, 0)
ErrOptField == Err("smpp/pdu: invalid optional field length", FALSE, 0)
ErrUnderLimit == Err("smpp: pdu length under lower limit", FALSE, 0)
ErrOverLimit == Err("smpp: pdu length over upper limit", FALSE, 0)
ErrEOF == Err("EOF", FALSE, 0)
ErrUnexpectedEOF == Err("unexpected EOF", FALSE, 0)
ErrBodyLength == Err("smpp: pdu length doesn't match read body length", FALSE, 0)
ErrCString == Err("invalid c string length", FALSE, 0)
ErrBindShort == Err("smpp/pdu: bind body too short", FALSE, 0)
ErrNotTerminated == Err("smpp/pdu: c string is not terminated", FALSE, 0)

\* The concatenation of a sequence of byte sequences.
RECURSIVE Concat(_)
Concat(ss) == IF ss = << >> THEN << >> ELSE Head(ss) \o Concat(Tail(ss))

\* An Options value: nil, or its map fields from tags to values.
NilOptions == [nil |-> TRUE, fields |-> << >>]
NewOptions == [nil |-> FALSE, fields |-> << >>]
OptionsOf(f) == [nil |-> FALSE, fields |-> f]

\* The orders in which a range over a map with these keys can yield them.
RangeOrders(keys) ==
  { ord \in [1..Cardinality(keys) -> keys] :
      \A i, j \in 1..Cardinality(keys) : ord[i] = ord[j] => i = j }

\* Options.MarshalBinary when the range over o.fields yields the tags in
\* the order ord: tag, length and value of each field.
OptionsMarshalBinary(o, ord) ==
  Concat([i \in 1..Len(ord) |->
            PutUint16(ord[i]) \o PutUint16(Len(o.fields[ord[i]]))
              \o o.fields[ord[i]]])

\* The loop of Options.UnmarshalBinary from offset n on, with the fields
\* set so far: the error returned and o.fields at the return.
RECURSIVE OptionsUnmarshalFrom(_, _, _)
OptionsUnmarshalFrom(buf, n, fields) ==
  IF ~(n < Len(buf)) THEN [err |-> NoErr, fields |-> fields]
  ELSE IF Len(buf) - n <= 4 THEN [err |-> ErrOptBody, fields |-> fields]
  ELSE LET tag == Uint16(SubSeq(buf, n + 1, n + 2))
           l == Uint16(SubSeq(buf, n + 3, n + 4))
       IN IF n + 4 + l >= Len(buf) + 1
          THEN [err |-> ErrOptField, fields |-> fields]
          ELSE OptionsUnmarshalFrom(buf, n + 4 + l,
                 [t \in DOMAIN fields \cup {tag} |->
                    IF t = tag THEN SubSeq(buf, n + 5, n + 4 + l)
                    ELSE fields[t]])

\* Options.UnmarshalBinary(buf) on an Options o.
OptionsUnmarshalBinary(o, buf) == OptionsUnmarshalFrom(buf, 0, o.fields)

\* The value of each command id, as the four bytes of the header field.
CommandCode ==
  [id \in CommandIDs |->
     CASE id = GenericNackID -> << 128, 0, 0, 0 >>
       [] id = BindReceiverID -> << 0, 0, 0, 1 >>
       [] id = BindReceiverRespID -> << 128, 0, 0, 1 >>
       [] id = BindTransmitterID -> << 0, 0, 0, 2 >>
       [] id = BindTransmitterRespID -> << 128, 0, 0, 2 >>
       [] id = QuerySmID -> << 0, 0, 0, 3 >>
       [] id = QuerySmRespID -> << 128, 0, 0, 3 >>
       [] id = SubmitSmID -> << 0, 0, 0, 4 >>
       [] id = SubmitSmRespID -> << 128, 0, 0, 4 >>
       [] id = DeliverSmID -> << 0, 0, 0, 5 >>
       [] id = DeliverSmRespID -> << 128, 0, 0, 5 >>
       [] id = UnbindID -> << 0, 0, 0, 6 >>
       [] id = UnbindRespID -> << 128, 0, 0, 6 >>
       [] id = ReplaceSmID -> << 0, 0, 0, 7 >>
       [] id = ReplaceSmRespID -> << 128, 0, 0, 7 >>
       [] id = CancelSmID -> << 0, 0, 0, 8 >>
       [] id = CancelSmRespID -> << 128, 0, 0, 8 >>
       [] id = BindTransceiverID -> << 0, 0, 0, 9 >>
       [] id = BindTransceiverRespID -> << 128, 0, 0, 9 >>
       [] id = OutbindID -> << 0, 0, 0, 11 >>
       [] id = EnquireLinkID -> << 0, 0, 0, 21 >>
       [] id = EnquireLinkRespID -> << 128, 0, 0, 21 >>
       [] id = SubmitMultiID -> << 0, 0, 0, 33 >>
       [] id = SubmitMultiRespID -> << 128, 0, 0, 33 >>
       [] id = AlertNotificationID -> << 0, 0, 1, 2 >>
       [] id = DataSmID -> << 0, 0, 1, 3 >>
       [] id = DataSmRespID -> << 128, 0, 1, 3 >>]

\* The PDUs with an empty body, the bind requests and the bind responses.
\* With deliver_sm_resp and the PDUs that are not supported yet they are
\* the PDUs whose bodies the codec is followed for.
EmptyBody ==
  { UnbindID, UnbindRespID, EnquireLinkID, EnquireLinkRespID, GenericNackID }
BindRequests == { BindTransmitterID, BindReceiverID, BindTransceiverID }
BindResponses ==
  { BindTransmitterRespID, BindReceiverRespID, BindTransceiverRespID }
Followed ==
  EmptyBody \cup BindRequests \cup BindResponses \cup {DeliverSmRespID}
    \cup Unsupported

\* A PDU value: its command id and the fields of its struct.
Pdu(id, f) == [id |-> id, f |-> f]
Bind(sysID, pass, sysType, ver, ton, npi, range) ==
  [SystemID |-> sysID, Password |-> pass, SystemType |-> sysType,
   InterfaceVersion |-> ver, AddrTon |-> ton, AddrNpi |-> npi,
   AddressRange |-> range]
BindResp(sysID, opts) == [SystemID |-> sysID, Options |-> opts]
DeliverSmResp(msgID) == [MessageID |-> msgID]

\* NewPDU(commandID): the zero value of the command's struct.
NewPDU(id) ==
  Pdu(id, CASE id \in BindRequests -> Bind(<< >>, << >>, << >>, 0, 0, 0, << >>)
            [] id \in BindResponses -> BindResp(<< >>, NilOptions)
            [] id = DeliverSmRespID -> DeliverSmResp(<< >>)
            [] OTHER -> << >>)

\* marshalBind: three C strings, three bytes and a C string.
marshalBind(f) ==
  f.SystemID \o << 0 >> \o f.Password \o << 0 >> \o f.SystemType \o << 0 >>
    \o << f.InterfaceVersion % 256, f.AddrTon % 256, f.AddrNpi % 256 >>
    \o f.AddressRange \o << 0 >>

\* cStringOptsRespMarshal under the order ord of the options' fields.
cStringOptsRespMarshal(str, opts, ord) ==
  IF opts.nil THEN str \o << 0 >>
  ELSE str \o << 0 >> \o OptionsMarshalBinary(opts, ord)

\* p.MarshalBinary(), under the order ord of its options' fields if it has
\* any: the body and the error.
MarshalBinary(p, ord) ==
  CASE p.id \in Unsupported -> [body |-> << >>, err |-> ErrMarshal]
    [] p.id \in EmptyBody -> [body |-> << >>, err |-> NoErr]
    [] p.id = DeliverSmRespID -> [body |-> << 0 >>, err |-> NoErr]
    [] p.id \in BindRequests -> [body |-> marshalBind(p.f), err |-> NoErr]
    [] p.id \in BindResponses ->
         [body |-> cStringOptsRespMarshal(p.f.SystemID, p.f.Options, ord),
          err |-> NoErr]

\* pduReader.ReadCString(limit) on the bytes of buf after the first pos of
\* them: the string, the error and the bytes read after the call.
ReadCString(buf, pos, limit) ==
  LET nuls == { k \in 1..(Len(buf) - pos) : buf[pos + k] = 0 }
      k == IF nuls = {} THEN 0
           ELSE CHOOSE x \in nuls : \A y \in nuls : x <= y
  IN IF k # 0 /\ k <= limit
     THEN [out |-> SubSeq(buf, pos + 1, pos + k - 1), err |-> NoErr,
           pos |-> pos + k]
     ELSE IF Len(buf) - pos >= limit
          THEN [out |-> << >>, err |-> ErrCString, pos |-> pos + limit]
          ELSE [out |-> << >>, err |-> ErrEOF, pos |-> Len(buf)]

\* pduReader.ReadByte
ReadByte(buf, pos) ==
  IF pos < Len(buf) THEN [b |-> buf[pos + 1], err |-> NoErr, pos |-> pos + 1]
  ELSE [b |-> 0, err |-> ErrEOF, pos |-> pos]

\* unmarshalBind(body, ...) into the fields f: the fields and the error.
unmarshalBind(f, body) ==
  IF Len(body) < 7 THEN [f |-> f, err |-> ErrBindShort]
  ELSE
  LET r1 == ReadCString(body, 0, 16)
      f1 == [f EXCEPT !.SystemID = r1.out]
      r2 == ReadCString(body, r1.pos, 9)
      f2 == [f1 EXCEPT !.Password = r2.out]
      r3 == ReadCString(body, r2.pos, 13)
      f3 == [f2 EXCEPT !.SystemType = r3.out]
      r4 == ReadByte(body, r3.pos)
      f4 == [f3 EXCEPT !.InterfaceVersion = r4.b]
      r5 == ReadByte(body, r4.pos)
      f5 == [f4 EXCEPT !.AddrTon = r5.b]
      r6 == ReadByte(body, r5.pos)
      f6 == [f5 EXCEPT !.AddrNpi = r6.b]
      r7 == ReadCString(body, r6.pos, 41)
      f7 == [f6 EXCEPT !.AddressRange = r7.out]
  IN CASE r1.err # NoErr -> [f |-> f, err |-> r1.err]
       [] r2.err # NoErr -> [f |-> f1, err |-> r2.err]
       [] r3.err # NoErr -> [f |-> f2, err |-> r3.err]
       [] r4.err # NoErr -> [f |-> f3, err |-> r4.err]
       [] r5.err # NoErr -> [f |-> f4, err |-> r5.err]
       [] r6.err # NoErr -> [f |-> f5, err |-> r6.err]
       [] r7.err # NoErr -> [f |-> f6, err |-> r7.err]
       [] OTHER -> [f |-> f7, err |-> NoErr]

\* cStringOptsRespUnmarshal(body) into the fields f.
cStringOptsRespUnmarshal(f, body) ==
  LET nuls == { i \in 1..Len(body) : body[i] = 0 }
      n == IF nuls = {} THEN 0 - 1
           ELSE CHOOSE x \in nuls : \A y \in nuls : x <= y
  IN IF n < 0 THEN [f |-> BindResp(<< >>, NilOptions), err |-> ErrNotTerminated]
     ELSE IF Len(body) - n > 0
          THEN LET u == OptionsUnmarshalBinary(NewOptions,
                                               SubSeq(body, n + 1, Len(body)))
               IN IF u.err # NoErr
                  THEN [f |-> BindResp(<< >>, NilOptions), err |-> u.err]
                  ELSE [f |-> BindResp(SubSeq(body, 1, n - 1),
                                       OptionsOf(u.fields)),
                        err |-> NoErr]
          ELSE [f |-> BindResp(SubSeq(body, 1, n - 1), NilOptions),
                err |-> NoErr]

\* pdu.UnmarshalBinary(body) on the PDU p: the PDU after and the error.
UnmarshalBinary(p, body) ==
  CASE p.id \in Unsupported -> [pdu |-> p, err |-> ErrMarshal]
    [] p.id \in EmptyBody -> [pdu |-> p, err |-> NoErr]
    [] p.id = DeliverSmRespID -> [pdu |-> p, err |-> NoErr]
    [] p.id \in BindRequests ->
         LET u == unmarshalBind(p.f, body)
         IN [pdu |-> Pdu(p.id, u.f), err |-> u.err]
    [] p.id \in BindResponses ->
         LET u == cStringOptsRespUnmarshal(p.f, body)
         IN [pdu |-> Pdu(p.id, u.f), err |-> u.err]

\* Encoder.Encode(p, EncodeSeq(seq), EncodeStatus(status)) by an Encoder
\* whose sequencer is at n and whose writer takes every byte, under the
\* order ord of the options' fields: the sequence number and the error
\* returned, the sequencer after the call and the bytes written.
EncoderEncode(p, seq, status, ord, n) ==
  LET m == MarshalBinary(p, ord)
      l == Len(m.body) + 16
      s == IF seq = << 0, 0, 0, 0 >> THEN defaultSequencerNext(n).ret ELSE seq
  IN IF m.err # NoErr
     THEN [seq |-> << 0, 0, 0, 0 >>, err |-> m.err, n |-> n, written |-> << >>]
     ELSE [seq |-> s, err |-> NoErr,
           n |-> IF seq = << 0, 0, 0, 0 >> THEN defaultSequencerNext(n).n
                 ELSE n,
           written |-> PutUint32(l) \o CommandCode[p.id] \o PutUint32(status)
                         \o s \o m.body]

\* A header: its length, command id, status and sequence number.
Header(length, commandID, status, sequence) ==
  [length |-> length, commandID |-> commandID, status |-> status,
   sequence |-> sequence]
NilHeader == Header(0, << 0, 0, 0, 0 >>, 0, << 0, 0, 0, 0 >>)
NilPdu == Pdu("nil", << >>)

\* header.UnmarshalBinary(body) of 16 bytes: the header and the error.
headerUnmarshalBinary(body) ==
  LET length == Uint32(SubSeq(body, 1, 4))
  IN IF length < 16
     THEN [h |-> [NilHeader EXCEPT !.length = length], err |-> ErrUnderLimit]
     ELSE IF length > MaxPDUSize
          THEN [h |-> [NilHeader EXCEPT !.length = length],
                err |-> ErrOverLimit]
          ELSE [h |-> Header(length, SubSeq(body, 5, 8),
                             Uint32(SubSeq(body, 9, 12)),
                             SubSeq(body, 13, 16)),
                err |-> NoErr]

\* Decoder.Decode() on a reader that holds the bytes r and then meets the
\* end: the header, the PDU and the error returned, the bytes taken from
\* the reader, and whether NewPDU panicked on an unknown command id.
DecoderDecode(r) ==
  LET out(h, p, e, n, panic) ==
        [header |-> h, pdu |-> p, err |-> e, frame |-> SubSeq(r, 1, n),
         panic |-> panic]
  IN IF Len(r) = 0 THEN out(NilHeader, NilPdu, ErrEOF, 0, FALSE)
     ELSE IF Len(r) < 16
     THEN out(NilHeader, NilPdu, ErrUnexpectedEOF, Len(r), FALSE)
     ELSE
     LET u == headerUnmarshalBinary(SubSeq(r, 1, 16))
         h == u.h
     IN IF u.err # NoErr THEN out(h, NilPdu, u.err, 16, FALSE)
        ELSE IF \A id \in CommandIDs : CommandCode[id] # h.commandID
        THEN out(h, NilPdu, NoErr, 16, TRUE)
        ELSE
        LET id == CHOOSE x \in CommandIDs : CommandCode[x] = h.commandID
            pdu == NewPDU(id)
        IN IF h.length = 16 THEN out(h, pdu, NoErr, 16, FALSE)
           ELSE IF Len(r) < h.length
           THEN out(h, pdu, ErrBodyLength, Len(r), FALSE)
           ELSE LET b == UnmarshalBinary(pdu, SubSeq(r, 17, h.length))
                IN out(h, b.pdu, b.err, h.length, FALSE)

\* ------------------------------------------------ an Encoder and a Decoder
\* The starts given to NewSequencer, the sequence numbers given to
\* EncodeSeq (0: not given) and the statuses given to EncodeStatus.
SeqStarts ==
  { << 0, 0, 0, 0 >>, << 0, 0, 0, 1 >>, << 0, 0, 0, 3 >>,
    << 127, 255, 255, 254 >>, << 127, 255, 255, 255 >> }
SeqOptions == { << 0, 0, 0, 0 >>, << 0, 0, 0, 4 >> }
Statuses == { StatusOK, StatusSysErr }

\* The PDU values given to the Encoder.
PduValues ==
  { Pdu(id, << >>) : id \in EmptyBody \cup {ReplaceSmID} }
    \cup { Pdu(DeliverSmRespID, DeliverSmResp(m)) : m \in {<< >>, << 49 >>} }
    \cup { Pdu(id, Bind(<< 97, 98 >>, << 112 >>, << >>, 52, 1, 1, << >>)) :
             id \in {BindTransmitterID, BindTransceiverID} }
    \cup { Pdu(BindTransceiverRespID, BindResp(<< 97 >>, o)) :
             o \in { NilOptions,
                     OptionsOf(528 :> << 52 >>),
                     OptionsOf((528 :> << 52 >>) @@ (29 :> << 111, 107 >>)) } }

\* A bind_transceiver_resp with a message_payload of LongLen bytes.
LongPdu ==
  Pdu(BindTransceiverRespID,
      BindResp(<< 97 >>, OptionsOf(1060 :> [i \in 1..LongLen |-> 0])))

\* The orders a range over the options of p can take, if p has any.
OrdersOf(p) ==
  IF p.id \in BindResponses /\ ~p.f.Options.nil
  THEN RangeOrders(DOMAIN p.f.Options.fields)
  ELSE { << >> }

\* The bytes a peer puts on the stream: an enquire_link, a deliver_sm_resp
\* with the message id "1", a bind_transceiver_resp with two options, a
\* frame with a command id NewPDU does not know, a frame whose length is
\* under 16, and a few bytes short of a header.
RawFrames ==
  { PutUint32(16) \o CommandCode[EnquireLinkID] \o PutUint32(StatusOK)
      \o << 0, 0, 0, 7 >>,
    PutUint32(18) \o CommandCode[DeliverSmRespID] \o PutUint32(StatusOK)
      \o << 0, 0, 0, 7 >> \o << 49, 0 >>,
    PutUint32(28) \o CommandCode[BindTransceiverRespID]
      \o PutUint32(StatusOK) \o << 0, 0, 0, 7 >>
      \o << 97, 0 >> \o << 2, 16, 0, 1, 52 >> \o << 0, 29, 0, 1, 111 >>,
    PutUint32(16) \o << 0, 0, 0, 10 >> \o PutUint32(StatusOK)
      \o << 0, 0, 0, 7 >>,
    PutUint32(8) \o CommandCode[EnquireLinkID] \o PutUint32(StatusOK)
      \o << 0, 0, 0, 7 >>,
    << 0, 0, 0 >> }

\* The n-th value after w in a sequencer.
RECURSIVE After(_, _)
After(w, k) == IF k = 0 THEN w ELSE After(Inc32(w), k - 1)

\* NewEncoder(buf, NewSequencer(start)) and NewDecoder(buf) on one buffer.
CodecInit ==
  /\ NewSession
  /\ confType = ESME
  /\ NoCaller
  /\ NoServer
  /\ calc = [op |-> "none"]
  /\ proc = "running"
  /\ NoLock
  /\ tlv = [op |-> "none"]
  /\ stream = << >>
  /\ decoded = [op |-> "none"]
  /\ \E start \in SeqStarts :
       /\ encN = NewSequencer(start)
       /\ encoded = [op |-> "NewEncoder", start |-> start]

CodecOnly ==
  UNCHANGED << sessVars, callerVars, serverVars, calc, tlv, lockVars >>

\* The Encoder has drawn fewer than MaxDraws numbers from its sequencer.
CanDraw ==
  \E start \in SeqStarts, k \in 0..(MaxDraws - 1) :
    encN = After(NewSequencer(start), k)

\* enc.Encode(p, EncodeSeq(seq), EncodeStatus(status)) of a PDU that was
\* decoded from the bytes from (none: of a caller's own PDU).
EncodeStep(p, seq, status, from) ==
  /\ proc = "running"
  /\ stream = << >>
  /\ seq = << 0, 0, 0, 0 >> => CanDraw
  /\ \E ord \in OrdersOf(p) :
       LET e == EncoderEncode(p, seq, status, ord, encN)
       IN /\ encN' = e.n
          /\ stream' = stream \o e.written
          /\ encoded' = [op |-> "Encode", p |-> p, seq |-> seq,
                         status |-> status, from |-> from, ret |-> e.seq,
                         err |-> e.err, written |-> e.written]
  /\ decoded' = [op |-> "none"]
  /\ proc' = proc
  /\ CodecOnly

\* A caller encodes a PDU of its own.
CallerEncode ==
  \/ \E p \in PduValues, seq \in SeqOptions, status \in Statuses :
       EncodeStep(p, seq, status, << >>)
  \/ EncodeStep(LongPdu, << 0, 0, 0, 0 >>, StatusOK, << >>)

\* A caller encodes the PDU it decoded, under the sequence number and the
\* status of the header it decoded.
Reencode ==
  /\ decoded.op = "Decode"
  /\ decoded.err = NoErr
  /\ EncodeStep(decoded.pdu, decoded.header.sequence, decoded.header.status,
                decoded.frame)

\* The peer writes a frame of its own to the stream.
PeerWrite ==
  /\ proc = "running"
  /\ stream = << >>
  /\ \E b \in RawFrames : stream' = b
  /\ encoded' = [op |-> "none"]
  /\ decoded' = [op |-> "none"]
  /\ UNCHANGED << encN, proc >>
  /\ CodecOnly

\* dec.Decode(), which a caller gives up after its first error, as serve()
\* does: a panic of NewPDU ends the process.
DecodeStep ==
  /\ proc = "running"
  /\ decoded.op = "Decode" => decoded.err = NoErr
  /\ LET d == DecoderDecode(stream)
     IN /\ decoded' = [op |-> "Decode", header |-> d.header, pdu |-> d.pdu,
                       err |-> d.err, frame |-> d.frame]
        /\ stream' = SubSeq(stream, Len(d.frame) + 1, Len(stream))
        /\ proc' = IF d.panic THEN "crashed" ELSE proc
  /\ UNCHANGED << encN, encoded >>
  /\ CodecOnly

CodecNext ==
  \/ CallerEncode
  \/ Reencode
  \/ PeerWrite
  \/ DecodeStep

CodecSpec == CodecInit /\ [][CodecNext]_vars

\* ------------------------------------------------- an Options map alone
\* The tags and the values of the maps, and the maps: every map from some
\* of the tags to the values, and two maps with a value of MaxValueLen
\* bytes.
Tags == { 5, 528, 1060 }
Values == { << >>, << 1 >>, << 1, 2 >> }
TlvMaps ==
  UNION { [keys -> Values] : keys \in SUBSET Tags }
    \cup { 1060 :> [i \in 1..MaxValueLen |-> 0],
           (1060 :> [i \in 1..MaxValueLen |-> 0]) @@ (5 :> << 1 >>) }

\* An Options whose fields are one of the maps.
OptionsInit ==
  /\ NewSession
  /\ confType = ESME
  /\ NoCaller
  /\ NoServer
  /\ calc = [op |-> "none"]
  /\ proc = "running"
  /\ NoLock
  /\ encN = << 0, 0, 0, 1 >>
  /\ stream = << >>
  /\ encoded = [op |-> "none"]
  /\ decoded = [op |-> "none"]
  /\ \E m \in TlvMaps : tlv = [op |-> "Options", m |-> m]

OptionsOnly ==
  UNCHANGED << sessVars, callerVars, serverVars, calc, proc, encN, stream,
               encoded, decoded, lockVars >>

\* o.MarshalBinary(), the range over o.fields taking one of its orders.
OptionsMarshal ==
  /\ tlv.op = "Options"
  /\ \E ord \in RangeOrders(DOMAIN tlv.m) :
       tlv' = [op |-> "MarshalBinary", m |-> tlv.m,
               bytes |-> OptionsMarshalBinary(OptionsOf(tlv.m), ord)]
  /\ OptionsOnly

\* NewOptions().UnmarshalBinary(bytes) of the bytes that were marshalled.
OptionsUnmarshal ==
  /\ tlv.op = "MarshalBinary"
  /\ LET u == OptionsUnmarshalBinary(NewOptions, tlv.bytes)
     IN tlv' = [op |-> "UnmarshalBinary", m |-> tlv.m, bytes |-> tlv.bytes,
                err |-> u.err, fields |-> u.fields]
  /\ OptionsOnly

OptionsNext ==
  \/ OptionsMarshal
  \/ OptionsUnmarshal

OptionsSpec == OptionsInit /\ [][OptionsNext]_vars

\* ------------------------------------------- the state check taken alone
\* A session of either type in any of its states, about to process a PDU
\* with any command id NewPDU knows, received or sent.
TransitionInit ==
  /\ NewSession
  /\ NoCaller
  /\ NoServer
  /\ encN = << 0, 0, 0, 1 >>
  /\ stream = << >>
  /\ encoded = [op |-> "none"]
  /\ decoded = [op |-> "none"]
  /\ tlv = [op |-> "none"]
  /\ proc = "running"
  /\ NoLock
  /\ \E cur \in SessionState, id \in CommandIDs, received \in BOOLEAN :
       calc = [op |-> "args", typ |-> confType, state |-> cur, id |-> id,
               received |-> received]

\* sess.makeTransition(ID, received) runs: its error and sess.state after.
CallMakeTransition ==
  /\ calc.op = "args"
  /\ LET t == makeTransition(calc.typ, calc.state, calc.id, calc.received)
     IN calc' = [op |-> "makeTransition", typ |-> calc.typ,
                 state |-> calc.state, id |-> calc.id,
                 received |-> calc.received, err |-> t.err,
                 after |-> t.state]
  /\ UNCHANGED << sessVars, callerVars, serverVars, pduVars, proc, lockVars >>

TransitionNext == CallMakeTransition

TransitionSpec == TransitionInit /\ [][TransitionNext]_vars

\* ------------------------------------------------------ binds of any kind
\* A session and a peer that exchange nothing but binds, of all three kinds,
\* and their answers. calc keeps the command id of the bind request that
\* took the session from Open to Binding.
BindInit ==
  /\ NewSession
  /\ NoCaller
  /\ NoServer
  /\ NoLib

\* The frames of a peer that binds and answers binds.
BindFrames ==
  { Frame(id, 1, StatusOK) : id \in BindRequests }
  \cup
  { Frame(id, seq, StatusOK) : id \in BindResponses \cup {GenericNackID},
                               seq \in sent \cup {seqN} }

\* The step is the one that accepts the bind request id, or keeps calc.
Accepted(id) ==
  /\ calc' = IF state = StateOpen /\ state' = StateBinding
             THEN [op |-> "bind", id |-> id]
             ELSE calc
  /\ UNCHANGED << callerVars, serverVars, pduVars, proc, lockVars >>

BindNext ==
  \/ \E req \in BindRequests : Send(req) /\ Accepted(req)
  \/ \E s \in calls : SendReceive(s) /\ SessionOnly
  \/ \E s \in calls : SendCtxDone(s) /\ SessionOnly
  \/ \E h \in BindFrames : Serve(h) /\ Accepted(h.id)
  \/ ServeDeliver /\ SessionOnly
  \/ \E k \in HandlerIds, resp \in BindResponses \cup {GenericNackID} :
       Respond(k, resp, StatusOK) /\ SessionOnly
  \/ \E k \in HandlerIds : HandlerReturn(k, FALSE) /\ SessionOnly
  \/ \E k \in HandlerIds : HandlerDone(k) /\ SessionOnly

BindSpec == BindInit /\ [][BindNext]_vars

\* ------------------------------------------------ the mutex, line by line
\* Send, Context.Respond, serve and handleRequest of an ESME session
\* followed line by line: sess.mu is locked and unlocked where the code does
\* it, setState calls the conf.SessionState hook, which is set, and Encode
\* reads the sequencer, increments it and hands the frame to a stream that
\* takes it in two parts.
LockInit ==
  /\ NewSession
  /\ confType = ESME
  /\ NoCaller
  /\ NoServer
  /\ encN = << 0, 0, 0, 1 >>
  /\ stream = << >>
  /\ encoded = [op |-> "none"]
  /\ decoded = [op |-> "none"]
  /\ tlv = [op |-> "none"]
  /\ calc = [op |-> "none"]
  /\ proc = "running"
  /\ thr = [t \in Threads |->
              IF t = "handler" THEN NoThread
              ELSE Thread("none", "idle", "nil", 0, 0, "nil", 0)]
  /\ onwire = NoHalf

\* What the callers of Send send, and what the peer writes.
LockSendCmds == { BindTransceiverID, SubmitSmID, UnbindID }
LockFrames ==
  { Frame(DeliverSmID, seq, StatusOK) : seq \in 0..MaxPeerSeq }
  \cup
  { Frame(id, seq, StatusOK) :
      id \in { BindTransceiverRespID, SubmitSmRespID, UnbindRespID },
      seq \in sent \cup {seqN} }

\* What these steps leave alone.
LockOnly ==
  UNCHANGED << confType, rwc, wg, chans, closedSig, calls, srv, hnd,
               shutdowns, closer, wire, ret, callerVars, serverVars, pduVars,
               calc, proc >>

\* The goroutine t goes to pc.
Goto(t, pc) == thr' = [thr EXCEPT ![t].pc = pc]

\* sess.mu.Unlock() by t, which then is at pc with nothing in hand.
Unlock(t, pc) ==
  /\ mu' = "free"
  /\ thr' = [thr EXCEPT ![t] =
               Thread("none", pc, "nil", 0, 0, thr[t].req, thr[t].rseq)]

\* A caller enters Send(ctx, req) and comes to sess.mu.Lock().
SendEnter(t, req) ==
  /\ thr[t].pc = "idle"
  /\ thr' = [thr EXCEPT ![t] =
               Thread("Send", "lock", req, 0, StatusOK, "nil", 0)]
  /\ UNCHANGED << state, mu, seqN, reqCount, sent, onwire >>
  /\ LockOnly

\* sess.dec.Decode() returns the frame h to serve, which comes to
\* sess.mu.Lock().
ServeDecoded(h) ==
  /\ thr["serve"].pc = "idle"
  /\ thr' = [thr EXCEPT !["serve"] =
               Thread("serve", "lock", h.id, h.seq, h.status, "nil", 0)]
  /\ UNCHANGED << state, mu, seqN, reqCount, sent, onwire >>
  /\ LockOnly

\* The handler calls ctx.Respond(resp, StatusOK) and comes to
\* ctx.sess.mu.Lock().
RespondEnter(resp) ==
  /\ thr["handler"].pc = "idle"
  /\ thr' = [thr EXCEPT !["handler"] =
               Thread("Respond", "lock", resp, thr["handler"].rseq, StatusOK,
                      thr["handler"].req, thr["handler"].rseq)]
  /\ UNCHANGED << state, mu, seqN, reqCount, sent, onwire >>
  /\ LockOnly

\* Handler.ServeSMPP returns; handleRequest's deferred function comes to
\* sess.mu.Lock().
HandlerLeaves ==
  /\ thr["handler"].pc = "idle"
  /\ thr' = [thr EXCEPT !["handler"] =
               Thread("done", "lock", "nil", 0, 0, "nil", 0)]
  /\ UNCHANGED << state, mu, seqN, reqCount, sent, onwire >>
  /\ LockOnly

\* A faulty mutex that lets every goroutine in.
MutexIgnored == TRUE

\* sync.Mutex: Lock returns when the mutex is unlocked.
MutexFree == mu = "free"

\* sess.mu.Lock() returns in t.
Lock(t) ==
  /\ thr[t].pc = "lock"
  /\ MutexFree
  /\ mu' = t
  /\ Goto(t, "locked")
  /\ UNCHANGED << state, seqN, reqCount, sent, onwire >>
  /\ LockOnly

\* The deferred function of handleRequest under the mutex: sess.reqCount--,
\* Unlock, and the task ends.
HandlerDeferred ==
  /\ thr["handler"].pc = "locked"
  /\ thr["handler"].op = "done"
  /\ reqCount' = reqCount - 1
  /\ mu' = "free"
  /\ thr' = [thr EXCEPT !["handler"] = NoThread]
  /\ UNCHANGED << state, seqN, sent, onwire >>
  /\ LockOnly

\* Under the mutex, Send's window check and then, as in Respond and serve,
\* makeTransition: an error unlocks and returns (serve: continues with the
\* next frame); a state change goes through setState, which calls the hook.
Check(t) ==
  /\ thr[t].pc = "locked"
  /\ thr[t].op \in { "Send", "Respond", "serve" }
  /\ LET m == makeTransition(confType, state, thr[t].id, thr[t].op = "serve")
     IN IF (thr[t].op = "Send" /\ WindowClosed) \/ m.err # NoErr
        THEN /\ Unlock(t, "idle")
             /\ state' = state
        ELSE /\ state' = m.state
             /\ Goto(t, IF m.state # state THEN "hook" ELSE "body")
             /\ mu' = mu
  /\ UNCHANGED << seqN, reqCount, sent, onwire >>
  /\ LockOnly

\* hook(sess.conf.ID, sess.SystemID(), sess.state) runs in t and returns.
Hook(t) ==
  /\ thr[t].pc = "hook"
  /\ Goto(t, "body")
  /\ UNCHANGED << state, mu, seqN, reqCount, sent, onwire >>
  /\ LockOnly

\* After the state check: Send and Respond call Encode; serve calls
\* throttle, which calls Encode, for a request that finds the window
\* closed, starts the handler task for any other request, and deletes the
\* slot of a response that has one.
Body(t) ==
  /\ thr[t].pc = "body"
  /\ IF thr[t].op \in { "Send", "Respond" }
     THEN /\ Goto(t, "next")
          /\ UNCHANGED << mu, reqCount, sent >>
     ELSE IF IsRequest(thr[t].id)
     THEN IF ReqWindowClosed
          THEN /\ thr' = [thr EXCEPT ![t] =
                            Thread("serve", "next", GenericNackID, thr[t].seq,
                                   StatusThrottled, "nil", 0)]
               /\ UNCHANGED << mu, reqCount, sent >>
          ELSE /\ thr["handler"].pc = "none"
               /\ reqCount' = reqCount + 1
               /\ mu' = "free"
               /\ thr' = [thr EXCEPT
                            ![t] = Thread("none", "idle", "nil", 0, 0, "nil", 0),
                            !["handler"] =
                              Thread("none", "idle", "nil", 0, 0, thr[t].id,
                                     thr[t].seq)]
               /\ sent' = sent
     ELSE /\ sent' = IF MatchSlot(thr[t]) # 0
                     THEN Unregister(MatchSlot(thr[t])) ELSE sent
          /\ Unlock(t, "idle")
          /\ reqCount' = reqCount
  /\ UNCHANGED << state, seqN, onwire >>
  /\ LockOnly

\* Encode: if eOpts.seq == 0, n := seq.n in defaultSequencer.Next.
EncodeNext(t) ==
  /\ thr[t].pc = "next"
  /\ IF thr[t].seq = 0
     THEN /\ seqN <= MaxSeq
          /\ thr' = [thr EXCEPT ![t].seq = seqN, ![t].pc = "inc"]
     ELSE Goto(t, "write")
  /\ UNCHANGED << state, mu, seqN, reqCount, sent, onwire >>
  /\ LockOnly

\* seq.n++, and Next returns n.
EncodeInc(t) ==
  /\ thr[t].pc = "inc"
  /\ seqN' = SequencerNext(seqN)
  /\ Goto(t, "write")
  /\ UNCHANGED << state, mu, reqCount, sent, onwire >>
  /\ LockOnly

\* en.w.Write(buf): the first part of the frame comes to the stream.
WriteFirst(t) ==
  /\ thr[t].pc = "write"
  /\ onwire' = Half(t, 1)
  /\ Goto(t, "half")
  /\ UNCHANGED << state, mu, seqN, reqCount, sent >>
  /\ LockOnly

\* The rest of the frame comes to the stream and Write returns.
WriteRest(t) ==
  /\ thr[t].pc = "half"
  /\ onwire' = Half(t, 2)
  /\ Goto(t, "wrote")
  /\ UNCHANGED << state, mu, seqN, reqCount, sent >>
  /\ LockOnly

\* Encode has returned: Send puts its slot in the table; all unlock. Send
\* goes on to its select, Respond returns to the handler, serve to Decode.
Written(t) ==
  /\ thr[t].pc = "wrote"
  /\ sent' = IF thr[t].op = "Send" THEN Register(thr[t].seq) ELSE sent
  /\ Unlock(t, "idle")
  /\ UNCHANGED << state, seqN, reqCount, onwire >>
  /\ LockOnly

LockNext ==
  \/ \E t \in Senders, req \in LockSendCmds : SendEnter(t, req)
  \/ \E h \in LockFrames : ServeDecoded(h)
  \/ \E resp \in RespondCmds(thr["handler"].req) : RespondEnter(resp)
  \/ HandlerLeaves
  \/ \E t \in Threads : Lock(t)
  \/ HandlerDeferred
  \/ \E t \in Threads : Check(t)
  \/ \E t \in Threads : Hook(t)
  \/ \E t \in Threads : Body(t)
  \/ \E t \in Threads : EncodeNext(t)
  \/ \E t \in Threads : EncodeInc(t)
  \/ \E t \in Threads : WriteFirst(t)
  \/ \E t \in Threads : WriteRest(t)
  \/ \E t \in Threads : Written(t)

LockSpec == LockInit /\ [][LockNext]_vars

\* ------------------------------------------------------------ properties
\* A Send returned in the latest step.
SendReturned == ret.op = "Send"
Closing == { StateClosing, StateClosed }
Messaging ==
  { SubmitSmID, SubmitSmRespID, DeliverSmID, DeliverSmRespID, QuerySmID,
    QuerySmRespID, EnquireLinkID, EnquireLinkRespID }

\* C1: in every reachable state the outstanding-request table holds at most
\* SendWinSize entries and at most ReqWinSize handler tasks are in flight.
C1_WindowsBounded ==
  /\ Cardinality(sent) <= SendWinSize
  /\ reqCount <= ReqWinSize

\* Both windows full at once.
C1_Witness ==
  /\ Cardinality(sent) = SendWinSize
  /\ reqCount = ReqWinSize
  /\ \E k \in HandlerIds : hnd[k].pc = "running"

\* C2: a Send that returns a response returns the one whose header carries
\* the sequence number Encode gave to that Send's request.
C2_MatchedBySequence ==
  (SendReturned /\ ret.resp # NoPdu) => ret.resp.seq = ret.seq

\* A Send got its response while an earlier Send is still outstanding: the
\* responses arrive out of order.
C2_Witness ==
  /\ SendReturned
  /\ ret.resp # NoPdu
  /\ \E s \in calls : s < ret.seq /\ s \in sent

\* C3: Send returns (response, nil) when the matched response's status is OK,
\* (response, StatusError of that status) when it is not, and (nil, an error)
\* in every other outcome.
C3_SendOutcome ==
  SendReturned =>
    IF ret.resp # NoPdu
    THEN ret.err = IF ret.resp.status = StatusOK THEN NoErr
                   ELSE StatusError(ret.resp.status)
    ELSE ret.err # NoErr

\* A Send returned a response with a status other than OK.
C3_Witness ==
  /\ SendReturned
  /\ ret.resp # NoPdu
  /\ ret.resp.status # StatusOK
  /\ ret.err = StatusError(ret.resp.status)

C5_NotifyClosedOnce ==
  /\ closedSig <= 1
  /\ closedSig = 1 =>
       /\ state = StateClosed
       /\ rwc = "closed"
       /\ srv.pc = "exited"
       /\ \A k \in HandlerIds : hnd[k].pc = "none"

\* The channel is closed and a further Close call has failed.
C5_Witness ==
  /\ closedSig = 1
  /\ ret.op = "Close"
  /\ ret.err # NoErr

\* C6: once a successful Close has returned, no handler task is running and
\* the receive loop has returned.
C6_CloseWaitsForTasks ==
  closer = "done" =>
    /\ srv.pc = "exited"
    /\ \A k \in HandlerIds : hnd[k].pc = "none"
    /\ reqCount = 0

\* Close is waiting in wg.Wait() while a handler task runs.
C6_Witness ==
  /\ closer = "wait"
  /\ \E k \in HandlerIds : hnd[k].pc = "running"

\* C7 as stated: a Close call fails only in Closing or Closed; in every other
\* state it closes the session and returns nil.
C7_CloseFromAnyState ==
  [][ (ret'.op = "Close" /\ ret'.err # NoErr) => state \in Closing ]_vars

\* C8 as stated: a Send on a full table fails with a temporary error.
C8_FullWindowTemporary ==
  [][ ( /\ Cardinality(sent) = SendWinSize
        /\ ret'.op = "Send"
        /\ ret'.seq = 0 ) => ret'.err.temp ]_vars

\* C8: while the table holds SendWinSize entries no Send gets a slot, and a
\* Send of a PDU other than nil fails at once with the temporary
\* window-closed error, writes nothing, draws no sequence number and leaves
\* the state and the table as they were.
C8_FullWindowRejects ==
  [][ Cardinality(sent) = SendWinSize =>
        /\ calls' \subseteq calls
        /\ sent' \subseteq sent
        /\ ( ret'.op = "Send" /\ ret'.seq = 0 /\ ret'.err # ErrNilPdu ) =>
             /\ ret'.err = ErrWindowClosed
             /\ ret'.err.temp
             /\ wire' = << >>
             /\ seqN' = seqN
             /\ state' = state
             /\ sent' = sent ]_vars

\* A Send was refused on a full table.
C8_Witness ==
  /\ Cardinality(sent) = SendWinSize
  /\ ret = Ret("Send", 0, NoPdu, ErrWindowClosed)

\* C9 as stated: a permitted inbound request that finds ReqWinSize tasks in
\* flight is answered with one generic_nack carrying status Throttled and the
\* request's sequence number, and no task is started; one that finds fewer
\* starts one task and nothing is written.
C9_ThrottleEchoesSequence ==
  [][ \A h \in PeerFrames :
        ( /\ IsRequest(h.id)
          /\ makeTransition(confType, state, h.id, TRUE).err = NoErr
          /\ Serve(h) ) =>
          IF reqCount = ReqWinSize
          THEN /\ hnd' = hnd
               /\ Len(wire') = 1
               /\ wire'[1].id = GenericNackID
               /\ wire'[1].status = StatusThrottled
               /\ wire'[1].seq = h.seq
          ELSE /\ wire' = << >>
               /\ Cardinality({ k \in HandlerIds : hnd'[k] # hnd[k] }) = 1
               /\ \E k \in HandlerIds :
                    /\ hnd[k].pc = "none"
                    /\ hnd'[k] = Task("running", h.id, h.seq) ]_vars

\* C10: the state check refuses every messaging PDU, sent or received, in
\* Open, Binding, Unbinding, Closing and Closed; and a messaging PDU is
\* handed to the stream, or a request of that kind to a handler task, only
\* in BoundTx, BoundRx or BoundTRx.
C10_MessagingOnlyWhenBound ==
  /\ \A typ \in SessionType, cur \in SessionState \ Bound, id \in Messaging,
        received \in BOOLEAN :
        makeTransition(typ, cur, id, received).err = ErrInvalidState
  /\ [][ /\ \A i \in 1..Len(wire') :
               wire'[i].id \in Messaging => state \in Bound /\ state' \in Bound
          /\ \A k \in HandlerIds :
               ( /\ hnd'[k].pc = "running"
                 /\ hnd[k].pc # "running"
                 /\ hnd'[k].id \in Messaging ) =>
                 state \in Bound /\ state' \in Bound ]_vars

\* A messaging PDU was written in a Bound state while a handler task runs
\* for a messaging request.
C10_Witness ==
  /\ state \in Bound
  /\ wire # << >>
  /\ wire[1].id \in Messaging
  /\ \E k \in HandlerIds : hnd[k].pc = "running" /\ hnd[k].id \in Messaging

\* C11 as stated: the session leaves Binding for a Bound state only on a
\* bind response with status OK: one received (ESME) or one written by
\* Respond (SMSC).
C11_BoundOnlyOnOk ==
  [][ (state = StateBinding /\ state' \in Bound) =>
        IF confType = ESME
        THEN \E h \in PeerFrames : h.status = StatusOK /\ Serve(h)
        ELSE Len(wire') = 1 /\ wire'[1].status = StatusOK ]_vars

C14_DecodeErrorShutsDown ==
  (srv.pc = "exited" /\ shutdowns = 0 /\ mu = "free") => state \in Closing

\* C16: a pending Send whose context is done returns (nil, context error),
\* writing nothing and leaving the table and the state as they were; and a
\* slot leaves the table only when the receive loop takes a response with its
\* sequence number or when Close empties the table.
C16_CancelKeepsSlot ==
  [][ /\ \A s \in calls :
           SendCtxDone(s) =>
             /\ ret' = Ret("Send", s, NoPdu, ErrContext)
             /\ wire' = << >>
             /\ sent' = sent
             /\ state' = state
             /\ seqN' = seqN
      /\ \A s \in sent \ sent' :
           \/ \E h \in PeerFrames :
                ~IsRequest(h.id) /\ h.seq = s /\ Serve(h) /\ sent' = sent \ {s}
           \/ state # StateClosing /\ state' = StateClosing /\ sent' = {} ]_vars

\* Every slot of a full table belongs to a Send that gave up, the latest one
\* just now: the window stays closed with no Send waiting.
C16_Witness ==
  /\ ret.op = "Send"
  /\ ret.err = ErrContext
  /\ ret.seq \in sent
  /\ calls = {}
  /\ Cardinality(sent) = SendWinSize

\* C17: a Close call that finds the session Closing or Closed finds it Closed
\* (the Close that won holds the mutex from Closing to Closed), returns an
\* error and changes nothing: state, stream, NotifyClosed, table and slots.
C17_SecondCloseNoEffect ==
  [][ \A b \in BOOLEAN :
        (state \in Closing /\ CloseBegin(b)) =>
          /\ state = StateClosed
          /\ ret'.op = "Close"
          /\ ret'.err # NoErr
          /\ UNCHANGED << state, rwc, closedSig, sent, chans, calls, closer,
                          mu, wg >> ]_vars

\* A Close call failed while the Close that won still waits for the tasks.
C17_Witness ==
  /\ ret.op = "Close"
  /\ ret.err # NoErr
  /\ state = StateClosed
  /\ closer = "wait"

\* C18 as stated: a Send waits for a response only when the PDU it wrote is a
\* request that has a response.
C18_WaitsOnlyForRequests ==
  [][ \A s \in calls' \ calls :
        /\ Len(wire') = 1
        /\ IsRequest(wire'[1].id)
        /\ wire'[1].id \notin { OutbindID, AlertNotificationID } ]_vars

\* The ESME of TestESMESession under a cooperative peer.
ESMEFlowRuns ==
  /\ confType = ESME
  /\ prog.coop
  /\ prog.script = ESMEFlow

\* Open, Binding, BoundTRx, Unbinding, Closing, Closed.
ESMEFlowPath ==
  << StateOpen, StateBinding, StateBoundTRx, StateUnbinding, StateClosing,
     StateClosed >>

\* C12: for an ESME whose peer answers every request with the matching
\* response and status OK, the calls Send(bind_transceiver), Send(submit_sm),
\* Send(unbind), Close made in that order are never stuck and all succeed,
\* each Send returning the response of its request's kind; the state goes
\* through Open, Binding, BoundTRx, Unbinding, Closing, Closed and nothing
\* else; and when Close has returned the stream is closed (it is closed where
\* Closing is entered, once) and NotifyClosed is signalled.
C12_ESMEFlow ==
  /\ [] ( ESMEFlowRuns =>
            /\ path = SubSeq(ESMEFlowPath, 1, Len(path))
            /\ ~Finished => ENABLED CallerNext
            /\ Finished =>
                 /\ path = ESMEFlowPath
                 /\ state = StateClosed
                 /\ rwc = "closed"
                 /\ closedSig = 1
                 /\ sent = {} )
  /\ [][ (ESMEFlowRuns /\ prog'.i = prog.i + 1) =>
           /\ ret'.err = NoErr
           /\ Op.call = "Send" =>
                /\ ret'.op = "Send"
                /\ ret'.resp.id = ResponseOf(Op.req)
                /\ ret'.resp.status = StatusOK
           /\ Op.call = "Close" => ret'.op = "Close"
           /\ (rwc' = "closed" /\ rwc = "open") =>
                state' = StateClosing /\ state # StateClosing ]_vars

\* The whole flow has run: Close has returned nil.
C12_Witness ==
  /\ ESMEFlowRuns
  /\ Finished
  /\ ret = Ret("Close", 0, NoPdu, NoErr)
  /\ seqN = 4

\* C15 as stated: when Unbind has returned the session is Closed and its
\* stream is closed.
C15_UnbindCloses ==
  ret.op = "Unbind" => state = StateClosed /\ rwc = "closed"

\* C19 as stated: when Server.Close has returned every listener that was
\* tracked is closed and every session that was active, bound or not, is
\* Closed, with its stream closed and its tasks returned.
C19_CloseClosesAll ==
  (admin.op = "Close" /\ admin.pc = "returned") =>
    /\ admin.lns # {} => server.ln = "closed"
    /\ \A c \in admin.seen :
         /\ ssn[c].state = StateClosed
         /\ ssn[c].rwc = "closed"
         /\ ssn[c].task = "nil"

\* Server.Unbind was called with several sessions active, all of them bound.
UnbindOfBound == admin.op = "Unbind" /\ admin.pre

\* C20: when Server.Unbind is called with several active sessions, all bound,
\* whose peers answer unbind, the loop writes an unbind on each of them;
\* Unbind returns, and then each of them is Closed, its stream closed and
\* NotifyClosed signalled; and the session of each peer comes to Closed and
\* signals NotifyClosed.
C20_ServerUnbind ==
  /\ [][ \A c \in Conns :
           (UnbindOfBound /\ SrvUnbindSend(c)) =>
             /\ admin'.pc = "wait"
             /\ peer'[c].inbox = Append(peer[c].inbox, UnbindID) ]_vars
  /\ [] ( (UnbindOfBound /\ admin.pc = "returned") =>
            \A c \in admin.seen :
              /\ ssn[c].state = StateClosed
              /\ ssn[c].rwc = "closed"
              /\ ssn[c].closed )
  /\ UnbindOfBound ~>
       /\ admin.pc = "returned"
       /\ \A c \in admin.seen :
            peer[c].state = StateClosed /\ peer[c].closed

\* Unbind has returned from two bound sessions, both answered by their peers,
\* and the peers' sessions are closed.
C20_Witness ==
  /\ UnbindOfBound
  /\ admin.pc = "returned"
  /\ admin.ctx = "live"
  /\ admin.seen = Conns
  /\ \A c \in Conns : peer[c].closed /\ ssn[c].closed

\* C29 as stated: for an ESME session in BoundTx the state check for sending
\* submit_sm, submit_multi, data_sm, query_sm, cancel_sm, replace_sm,
\* enquire_link and generic_nack passes and leaves BoundTx, and an unbind,
\* sent or received, moves the session to Unbinding.
C29_BoundTxSends ==
  (calc.op = "makeTransition" /\ calc.typ = ESME /\ calc.state = StateBoundTx) =>
    /\ ( /\ ~calc.received
         /\ calc.id \in { SubmitSmID, SubmitMultiID, DataSmID, QuerySmID,
                          CancelSmID, ReplaceSmID, EnquireLinkID,
                          GenericNackID } ) =>
         (calc.err = NoErr /\ calc.after = StateBoundTx)
    /\ calc.id = UnbindID =>
         (calc.err = NoErr /\ calc.after = StateUnbinding)

\* C30 as stated: for each session type and direction, makeTransition
\* permits a command id in BoundTRx exactly when it permits it in BoundTx or
\* in BoundRx.
C30_BoundTRxIsUnion ==
  (calc.op = "makeTransition" /\ calc.state = StateBoundTRx) =>
    ( calc.err = NoErr <=>
        \/ makeTransition(calc.typ, StateBoundTx, calc.id, calc.received).err = NoErr
        \/ makeTransition(calc.typ, StateBoundRx, calc.id, calc.received).err = NoErr )

\* C28 as stated: the session state is never Closed while a handler task
\* that the session dispatched is still running.
C28_ClosedAfterDrain ==
  state = StateClosed => \A k \in HandlerIds : hnd[k].pc # "running"

\* C25 as stated: when decoding an inbound frame fails, only that frame is
\* discarded: the receive loop goes on reading, the session state is
\* unchanged and no shutdown is started.
C25_DecodeErrorDropsFrame ==
  [][ ServeDecodeError =>
        /\ srv'.pc = "decode"
        /\ state' = state
        /\ shutdowns' = shutdowns ]_vars

\* C26 as stated: a panic inside Handler.ServeSMPP stays in its handler task:
\* when the task's deferred function has run, the request counter is one
\* lower, the mutex is free and the process, with the session's receive loop,
\* its other tasks and its pending Sends, runs on.
C26_PanicConfined ==
  [][ \A k \in HandlerIds :
        PanicUnwind(k) =>
          /\ reqCount' = reqCount - 1
          /\ mu' = "free"
          /\ proc' = "running" ]_vars

\* The command ids makeTransition refuses, by session type, state and
\* direction.
Refused ==
  [typ \in SessionType, cur \in SessionState, received \in BOOLEAN |->
     { id \in CommandIDs : makeTransition(typ, cur, id, received).err # NoErr }]

\* C27: a command id that makeTransition does not permit, for any session
\* type, state and direction, gets the temporary invalid-state error and
\* leaves the state as it was. As a consequence no step writes a PDU that the
\* state before it refuses for sending (the throttle reply, which bypasses
\* the check, apart) or adds a slot for one; a Send or Respond that returns
\* the invalid-state error has changed nothing; no step starts a handler
\* task for, or takes a slot for, a PDU the state before it refuses for
\* receiving; and the only step that ends the receive loop is a failed
\* Decode, never a refused PDU.
C27_InvalidIsHarmless ==
  /\ \A typ \in SessionType, cur \in SessionState, id \in CommandIDs,
        received \in BOOLEAN :
        LET t == makeTransition(typ, cur, id, received)
        IN t.err # NoErr =>
             (t.err = ErrInvalidState /\ t.err.temp /\ t.state = cur)
  /\ [][ /\ \A i \in 1..Len(wire') :
              wire'[i].status # StatusThrottled =>
                wire'[i].id \notin Refused[confType, state, FALSE]
         /\ \A k \in sent' \ sent :
              \E i \in 1..Len(wire') :
                /\ wire'[i].seq = k
                /\ wire'[i].id \notin Refused[confType, state, FALSE]
         /\ ( ret'.op \in {"Send", "Respond"} /\ ret'.err = ErrInvalidState ) =>
              /\ wire' = << >>
              /\ sent' = sent /\ calls' = calls /\ chans' = chans
              /\ state' = state /\ srv' = srv /\ hnd' = hnd
              /\ shutdowns' = shutdowns /\ rwc' = rwc
         /\ \A k \in HandlerIds :
              ( hnd'[k].pc = "running" /\ hnd[k].pc # "running" ) =>
                hnd'[k].id \notin Refused[confType, state, TRUE]
         /\ ( srv.pc = "decode" /\ srv'.pc = "deliver" ) =>
              srv'.h.id \notin Refused[confType, state, TRUE]
         /\ ( srv.pc = "decode" /\ srv'.pc \notin {"decode", "deliver"} ) =>
              ServeDecodeError
       ]_vars

\* A Send was refused by the state check on a bound session that has a
\* request outstanding and whose receive loop runs.
C27_Witness ==
  /\ ret = Ret("Send", 0, NoPdu, ErrInvalidState)
  /\ state \in Bound
  /\ sent # {}
  /\ srv.pc = "decode"

\* C24: every sequence number of the default Sequencer lies in
\* [1, 0x7FFFFFFF]: the sequencer starts at 1 or at the non-zero start it
\* was given, every number an Encode draws from it is in that range, and the
\* number after n is n + 1, or 1 after 0x7FFFFFFF.
C24_SequencerWraps ==
  /\ [](encoded.op = "NewEncoder" =>
          encN = IF encoded.start = << 0, 0, 0, 0 >> THEN SequenceStart
                 ELSE encoded.start)
  /\ [](encoded.op = "Encode" /\ encoded.seq = << 0, 0, 0, 0 >>
          /\ encoded.err = NoErr =>
          encoded.ret # << 0, 0, 0, 0 >> /\ encoded.ret[1] <= SequenceEnd[1])
  /\ [][encN' # encN =>
          encN' = IF encN = SequenceEnd THEN SequenceStart ELSE Inc32(encN)]_vars

\* C23: the command_length of every frame Encode writes is 16 plus the
\* length of the marshalled body, is the number of bytes written and lies in
\* [16, 4096]; an Encode of a PDU whose frame would be longer than 4096
\* bytes fails and writes nothing.
C23_FrameLength ==
  encoded.op = "Encode" =>
    LET m == MarshalBinary(encoded.p,
                           CHOOSE ord \in OrdersOf(encoded.p) : TRUE)
        l == Uint32(SubSeq(encoded.written, 1, 4))
    IN /\ encoded.written # << >> =>
            /\ l = 16 + Len(m.body)
            /\ l = Len(encoded.written)
            /\ l \in 16..MaxPDUSize
       /\ m.err = NoErr /\ 16 + Len(m.body) > MaxPDUSize =>
            encoded.err # NoErr /\ encoded.written = << >>

\* C21: decoding the frame that Encode wrote for a supported PDU p yields no
\* error, a PDU equal to p and a header with the sequence number and the
\* status of the Encode; and encoding the PDU decoded from a well-formed
\* frame, under that frame's sequence number and status, writes the bytes
\* of the frame.
C21_RoundTrip ==
  /\ encoded.op = "Encode" /\ encoded.written # << >>
       /\ decoded.op = "Decode" /\ decoded.frame = encoded.written =>
       /\ decoded.err = NoErr
       /\ decoded.pdu = encoded.p
       /\ decoded.header.sequence = encoded.ret
       /\ decoded.header.status = encoded.status
  /\ encoded.op = "Encode" /\ encoded.from # << >> =>
       encoded.err = NoErr /\ encoded.written = encoded.from

\* C22: for every TLV map m, with values of any length from 0 to 65535,
\* Options.UnmarshalBinary of the bytes of Options.MarshalBinary(m) returns
\* no error and yields a map equal to m.
C22_TlvRoundTrip ==
  tlv.op = "UnmarshalBinary" => tlv.err = NoErr /\ tlv.fields = tlv.m

\* The edges of the session-state graph.
Edges ==
  { << StateOpen, StateBinding >>, << StateBinding, StateOpen >>,
    << StateUnbinding, StateClosing >>, << StateClosing, StateClosed >> }
  \cup { << StateBinding, b >> : b \in Bound }
  \cup { << b, StateUnbinding >> : b \in Bound }
  \cup { << b, StateClosing >> : b \in Bound }

\* C35: every change of the session state, under any interleaving of Send,
\* Respond, inbound PDUs and Close, follows one of the edges Open->Binding,
\* Binding->Open, Binding->Bound*, Bound*->Unbinding, Bound*->Closing,
\* Unbinding->Closing, Closing->Closed: Closed is terminal, a bound session
\* never returns to Open or Binding or changes its Bound kind, and an
\* unbinding session never returns to a Bound state.
C35_StateEdges ==
  /\ \A cur, new \in SessionState :
       setState(cur, new).state # cur => << cur, new >> \in Edges
  /\ [][ state' # state => << state, state' >> \in Edges ]_vars

\* A session that was bound and then closed has walked the whole graph, and
\* the Close that closed it has returned.
C35_Witness ==
  /\ state = StateClosed
  /\ closedSig = 1
  /\ ret = Ret("Close", 0, NoPdu, NoErr)
  /\ seqN > 1

\* C37 as stated: the step of the receive loop that answers an inbound
\* request with generic_nack/Throttled leaves the session state as it was.
C37_ThrottleKeepsState ==
  [][ ( /\ Len(wire') = 1
        /\ wire'[1].id = GenericNackID
        /\ wire'[1].status = StatusThrottled
        /\ wire'[1].ok ) => state' = state ]_vars

\* C38 as stated: a Send that returns a marshal error or a stream write
\* error leaves the session state and the outstanding-request table as they
\* were before the call.
C38_FailedSendNoEffect ==
  [][ ( /\ ret'.op = "Send"
        /\ ret'.seq = 0
        /\ ret'.err \in { ErrMarshal, ErrWrite } ) =>
        state' = state /\ sent' = sent ]_vars

\* C36 as stated: a turn of the receive loop that decodes a response whose
\* sequence number is the key of a slot in the outstanding-request table
\* removes that slot and goes on to hand the response to it, whatever the
\* session state.
C36_ResponseAlwaysDelivered ==
  [][ \A h \in PeerFrames :
        ( /\ ~IsRequest(h.id)
          /\ h.seq \in sent
          /\ Serve(h) ) =>
          /\ h.seq \notin sent'
          /\ srv' = [pc |-> "deliver", h |-> h, to |-> h.seq] ]_vars

\* C32: the receive loop is never held up by a response, in particular not
\* by one for a request whose Send has returned on its context: when the
\* loop is about to hand a response over, the slot is out of the table and
\* its channel is open and has room, so the send goes through at once, and
\* the step after it takes the loop back to Decode.
C32_LateResponseNeverBlocks ==
  /\ [](srv.pc = "deliver" =>
          /\ srv.to \notin sent
          /\ chans[srv.to].st = "empty")
  /\ [][ (srv.pc = "deliver" /\ srv' # srv) =>
          /\ srv' = Idle
          /\ srv.to \in calls => chans'[srv.to] =
                                   Chan("full", srv.h, toError(srv.h.status))
          /\ UNCHANGED << sent, state, calls >> ]_vars

\* The receive loop has taken the slot of a Send that gave up on its
\* context, while another Send still waits.
C32_Witness ==
  /\ srv.pc = "deliver"
  /\ srv.to \notin calls
  /\ calls # {}

\* C39: a reply slot is completed at most once. A slot still in the table
\* has neither got a response nor been closed; the receive loop never sends
\* on a channel that Close has closed; a channel that holds a response is
\* never closed and gets no second response; and a closed channel stays as
\* it is until its Send has seen it.
C39_SlotCompletedOnce ==
  /\ [](\A k \in sent : chans[k].st = "empty")
  /\ [](srv.pc # "panicked")
  /\ [](srv.pc = "deliver" => chans[srv.to].st # "closed")
  /\ [][ \A k \in (DOMAIN chans) \cap (DOMAIN chans') :
           /\ chans[k].st = "full" => chans'[k] \in { chans[k], EmptyChan }
           /\ chans[k].st = "closed" => chans'[k] = chans[k] ]_vars

\* One Send has its response waiting in its channel while Close has closed
\* the channel of another.
C39_Witness ==
  \E j, k \in calls :
    /\ chans[j].st = "full"
    /\ chans[k].st = "closed"

\* The handler tasks started and not yet finished.
TasksInFlight == { k \in HandlerIds : hnd[k].pc # "none" }

\* C34: reqCount is the number of handler tasks that were started and have
\* not finished, and so never negative and 0 when no task runs; it goes up
\* by one exactly in the step that starts one task, down by one exactly in
\* the step that ends one, and a step that writes the throttle reply leaves
\* it and the tasks as they were.
C34_ReqCountIsTasks ==
  /\ [](reqCount = Cardinality(TasksInFlight))
  /\ [](reqCount >= 0)
  /\ [][ /\ reqCount' # reqCount \/ hnd' # hnd =>
              \E k \in HandlerIds :
                /\ \A j \in HandlerIds \ {k} : hnd'[j] = hnd[j]
                /\ \/ /\ hnd[k].pc = "none" /\ hnd'[k].pc = "running"
                      /\ reqCount' = reqCount + 1
                   \/ /\ hnd[k].pc = "running" /\ hnd'[k].pc = "deferred"
                      /\ reqCount' = reqCount
                   \/ /\ hnd[k].pc = "deferred" /\ hnd'[k].pc = "none"
                      /\ reqCount' = reqCount - 1
         /\ ( /\ wire' # << >>
              /\ wire'[1].status = StatusThrottled ) =>
              reqCount' = reqCount /\ hnd' = hnd ]_vars

\* A request was throttled because of a task whose handler has returned but
\* whose deferred decrement has not run yet.
C34_Witness ==
  /\ wire # << >>
  /\ wire[1].status = StatusThrottled
  /\ reqCount = ReqWinSize
  /\ \A k \in TasksInFlight : hnd[k].pc = "deferred"

\* C40 as stated: the Bound state of a session is the one of the bind
\* request it accepted last: BoundTx after bind_transmitter, BoundRx after
\* bind_receiver, BoundTRx after bind_transceiver.
C40_BoundMatchesBind ==
  (state \in Bound /\ calc.op = "bind") =>
    state = ( CASE calc.id = BindTransmitterID -> StateBoundTx
                [] calc.id = BindReceiverID -> StateBoundRx
                [] calc.id = BindTransceiverID -> StateBoundTRx )

\* The goroutines inside Encode: from the read of the sequencer to the
\* return of Write.
InEncode == { t \in Threads : thr[t].pc \in { "next", "inc", "write", "half", "wrote" } }

\* C31: the writes of one session exclude one another: at most one
\* goroutine is inside Encode, and it holds the mutex; a frame whose first
\* part is on the stream gets its second part before any other write; and
\* the number a Send has drawn for its request is not the key of a slot
\* already in the table, so requests outstanding together differ in their
\* sequence numbers.
C31_WritesExcludeOneAnother ==
  /\ [](Cardinality(InEncode) <= 1)
  /\ [](\A t \in InEncode : mu = t)
  /\ [](\A t \in Threads : thr[t].pc = "half" => onwire = Half(t, 1))
  /\ [](\A t \in Threads :
          (thr[t].op = "Send" /\ thr[t].pc \in { "inc", "write", "half", "wrote" }) =>
            thr[t].seq \notin sent)
  /\ [][ onwire' # onwire =>
           IF onwire'.part = 1 THEN onwire.part # 1
           ELSE onwire = Half(onwire'.by, 1) ]_vars

\* One Send is in the middle of its frame, with a request outstanding,
\* while the other Send, a Respond and the receive loop, which has a request
\* to throttle, wait for the mutex.
C31_Witness ==
  /\ \E t \in Senders :
       /\ thr[t].pc = "half"
       /\ \A u \in Threads \ {t} : thr[u].pc = "lock"
  /\ thr["handler"].op = "Respond"
  /\ IsRequest(thr["serve"].id)
  /\ reqCount = ReqWinSize
  /\ sent # {}

\* C33 as stated: the SessionState hook never runs in a goroutine that
\* holds the session mutex.
C33_HookOutsideMutex ==
  \A t \in Threads : thr[t].pc = "hook" => mu # t

====
